---- MODULE Spec2Model ----
(***************************************************************************)
(* Music Database Manager (Flask + SQLite): the data-access and            *)
(* authorization layer.  One action per HTTP route; an action is the whole *)
(* handler, decorators included.  Text is a sequence of one-character      *)
(* strings, so that str.strip() and int() are computed, not assumed.       *)
(***************************************************************************)
EXTENDS Integers, Sequences, FiniteSets, Bags, TLC

\* ------------------------------------------------------------------ bounds
\* Highest row id the model lets a table reach.
MaxId == 2
\* Most rows the whole store may hold (all seven tables together).
MaxRows == 4
\* Longest duration, in seconds, handed to the converters on their own.
MaxSeconds == 230

\* ------------------------------------------------------------------ text
\* Python's None, and a value that is not None: an optional value is a
\* sequence of at most one element.
None == <<>>
Some(x) == <<x>>

IsSpace(c) == c \in {" ", "\t", "\n"}

RECURSIVE lstrip(_)
lstrip(s) == IF s # <<>> /\ IsSpace(Head(s)) THEN lstrip(Tail(s)) ELSE s

RECURSIVE rstrip(_)
rstrip(s) ==
    IF s # <<>> /\ IsSpace(s[Len(s)]) THEN rstrip(SubSeq(s, 1, Len(s) - 1)) ELSE s

\* str.strip(): leading and trailing whitespace removed.
strip(s) == rstrip(lstrip(s))

\* `x or None`: an empty string is falsy.
or_None(s) == IF s = <<>> THEN None ELSE Some(s)

\* request.form.get(key, ""): the field's text, "" when the form lacks it.
form_get(form, key) == IF key \in DOMAIN form THEN form[key] ELSE <<>>

Digits == {"0", "1", "2", "3", "4", "5", "6", "7", "8", "9"}
DigitVal ==
    ("0" :> 0) @@ ("1" :> 1) @@ ("2" :> 2) @@ ("3" :> 3) @@ ("4" :> 4) @@
    ("5" :> 5) @@ ("6" :> 6) @@ ("7" :> 7) @@ ("8" :> 8) @@ ("9" :> 9)

RECURSIVE DigitsValue(_)
DigitsValue(s) ==
    IF s = <<>> THEN 0
    ELSE DigitsValue(SubSeq(s, 1, Len(s) - 1)) * 10 + DigitVal[s[Len(s)]]

\* int(text): surrounding whitespace ignored, an optional sign, then one or
\* more decimal digits; anything else raises ValueError.
IntSigned(s) == strip(s) # <<>> /\ Head(strip(s)) \in {"+", "-"}
IntDigits(s) == IF IntSigned(s) THEN Tail(strip(s)) ELSE strip(s)

int_raises(s) ==
    IntDigits(s) = <<>> \/ \E i \in 1..Len(IntDigits(s)) : IntDigits(s)[i] \notin Digits

int(s) ==
    IF IntSigned(s) /\ Head(strip(s)) = "-" THEN 0 - DigitsValue(IntDigits(s))
    ELSE DigitsValue(IntDigits(s))

\* str(n): the decimal text of an integer.
DigitChar == <<"0", "1", "2", "3", "4", "5", "6", "7", "8", "9">>
RECURSIVE str(_)
str(n) ==
    IF n < 0 THEN <<"-">> \o str(0 - n)
    ELSE IF n < 10 THEN <<DigitChar[n + 1]>>
    ELSE str(n \div 10) \o <<DigitChar[(n % 10) + 1]>>

\* ------------------------------------------------------------------ state
VARIABLES
    artists,       \* id -> [name, bio]
    albums,        \* id -> [title, artist_id, release_year]
    songs,         \* id -> [title, duration]
    genres,        \* id -> [name]
    album_songs,   \* bag of <<album_id, song_id>>
    song_genres,   \* bag of <<song_id, genre_id>>
    album_genres,  \* bag of <<album_id, genre_id>>
    session,       \* Some(user id) held by the signed session cookie, or None
    g,             \* flask.g of the request being served: Some(connection) or None
    scenario,      \* history: how far the create/delete walk-through has come
    resp,          \* the response of the request being served, NoResponse between requests
    db_file,       \* TRUE once the database file exists at DB_PATH
    connections,   \* the number of sqlite3 connections that are open
    codec,         \* [seconds, mmss]: a duration and a text handed to the two converters
    caller,        \* current_user of the request being answered; None outside a request
    startup,       \* [pc, tables, scripts, finished]: each process's place in _init_db,
                   \* whether the tables exist, how many runs of the schema script
                   \* have begun and how many have reached its end
    pending        \* the Edit a second worker is in the middle of, or None

store == <<artists, albums, songs, genres, album_songs, song_genres, album_genres>>
vars == <<artists, albums, songs, genres, album_songs, song_genres, album_genres,
          session, g, scenario, resp, db_file, connections, codec, caller,
          startup, pending>>

\* ------------------------------------------------------------------ schema
\* Foreign keys of the schema script: albums.artist_id -> artists.id, and each
\* junction column -> the id of its endpoint table.  No ON DELETE action, no
\* uniqueness constraint on a junction pair.
artist_exists(id) == id \in DOMAIN artists
album_exists(id) == id \in DOMAIN albums
song_exists(id) == id \in DOMAIN songs
genre_exists(id) == id \in DOMAIN genres

artist_is_referenced(id) == \E a \in DOMAIN albums : albums[a].artist_id = id
album_is_referenced(id) ==
    \/ \E p \in DOMAIN album_songs : p[1] = id
    \/ \E p \in DOMAIN album_genres : p[1] = id
song_is_referenced(id) ==
    \/ \E p \in DOMAIN album_songs : p[2] = id
    \/ \E p \in DOMAIN song_genres : p[1] = id
genre_is_referenced(id) ==
    \/ \E p \in DOMAIN song_genres : p[2] = id
    \/ \E p \in DOMAIN album_genres : p[2] = id

\* INTEGER PRIMARY KEY: a new row gets the largest id in the table plus one.
next_rowid(table) ==
    IF DOMAIN table = {} THEN 1
    ELSE (CHOOSE m \in DOMAIN table : \A k \in DOMAIN table : k <= m) + 1

RowCount ==
    Cardinality(DOMAIN artists) + Cardinality(DOMAIN albums)
    + Cardinality(DOMAIN songs) + Cardinality(DOMAIN genres)
    + BagCardinality(album_songs) + BagCardinality(song_genres)
    + BagCardinality(album_genres)

\* The bounds of the model: room for one more row in `table` / in a junction.
HasRoom(table) == RowCount < MaxRows /\ next_rowid(table) <= MaxId
HasRoomForPair == RowCount < MaxRows

\* ------------------------------------------------------------------ storage
NoError == "ok"
IntegrityError == "FOREIGN KEY constraint failed"
ValueError == "invalid literal for int()"

\* get_db(): the request's connection; the first call of a request opens it
\* and turns foreign-key enforcement on, later calls return the one g holds.
get_db_without_pragma == IF g = None THEN [foreign_keys |-> FALSE] ELSE g[1]
get_db == IF g = None THEN [foreign_keys |-> TRUE] ELSE g[1]
\* `if "db" not in g`: the call opens a connection only when g holds none.
get_db_opens_always == TRUE
get_db_opens == g = None

Result(error, rows) == [error |-> error, rows |-> rows]

\* f"Error: {e}" and f"Cannot delete: {e}"
error_message(e) ==
    IF e = IntegrityError THEN "Error: FOREIGN KEY constraint failed"
    ELSE "Error: invalid literal for int()"
cannot_delete_message(e) ==
    IF e = IntegrityError THEN "Cannot delete: FOREIGN KEY constraint failed"
    ELSE "Cannot delete: invalid literal for int()"

WithRow(table, id, row) ==
    [k \in DOMAIN table \cup {id} |-> IF k = id THEN row ELSE table[k]]
WithoutRow(table, id) == [k \in DOMAIN table \ {id} |-> table[k]]
WithoutPair(bag, pair) == [p \in DOMAIN bag \ {pair} |-> bag[p]]

\* INSERT INTO artists (name, bio) VALUES (?, ?)
insert_artist(db, name, bio) ==
    Result(NoError, WithRow(artists, next_rowid(artists), [name |-> name, bio |-> bio]))

\* UPDATE artists SET name = ?, bio = ? WHERE id = ?
update_artist_or_insert(db, name, bio, id) ==
    Result(NoError, WithRow(artists, id, [name |-> name, bio |-> bio]))
update_artist(db, name, bio, id) ==
    IF artist_exists(id)
    THEN Result(NoError, WithRow(artists, id, [name |-> name, bio |-> bio]))
    ELSE Result(NoError, artists)

\* DELETE FROM artists WHERE id = ?
delete_artist_unchecked(db, id) == Result(NoError, WithoutRow(artists, id))
delete_artist(db, id) ==
    IF db.foreign_keys /\ artist_exists(id) /\ artist_is_referenced(id)
    THEN Result(IntegrityError, artists)
    ELSE Result(NoError, WithoutRow(artists, id))

\* INSERT INTO albums (title, artist_id, release_year) VALUES (?, ?, ?)
insert_album_unchecked(db, title, artist_id, release_year) ==
    Result(NoError, WithRow(albums, next_rowid(albums),
            [title |-> title, artist_id |-> artist_id, release_year |-> release_year]))
insert_album(db, title, artist_id, release_year) ==
    IF db.foreign_keys /\ ~artist_exists(artist_id)
    THEN Result(IntegrityError, albums)
    ELSE Result(NoError, WithRow(albums, next_rowid(albums),
            [title |-> title, artist_id |-> artist_id, release_year |-> release_year]))

\* UPDATE albums SET title = ?, artist_id = ?, release_year = ? WHERE id = ?
update_album_unchecked(db, title, artist_id, release_year, id) ==
    IF ~album_exists(id) THEN Result(NoError, albums)
    ELSE Result(NoError, WithRow(albums, id,
            [title |-> title, artist_id |-> artist_id, release_year |-> release_year]))
update_album(db, title, artist_id, release_year, id) ==
    IF ~album_exists(id) THEN Result(NoError, albums)
    ELSE IF db.foreign_keys /\ ~artist_exists(artist_id)
    THEN Result(IntegrityError, albums)
    ELSE Result(NoError, WithRow(albums, id,
            [title |-> title, artist_id |-> artist_id, release_year |-> release_year]))

\* DELETE FROM albums WHERE id = ?
delete_album(db, id) ==
    IF db.foreign_keys /\ album_exists(id) /\ album_is_referenced(id)
    THEN Result(IntegrityError, albums)
    ELSE Result(NoError, WithoutRow(albums, id))

\* INSERT INTO songs (title, duration) VALUES (?, ?)
insert_song(db, title, duration) ==
    Result(NoError, WithRow(songs, next_rowid(songs), [title |-> title, duration |-> duration]))

\* UPDATE songs SET title = ?, duration = ? WHERE id = ?
update_song(db, title, duration, id) ==
    IF song_exists(id)
    THEN Result(NoError, WithRow(songs, id, [title |-> title, duration |-> duration]))
    ELSE Result(NoError, songs)

\* DELETE FROM songs WHERE id = ?
delete_song(db, id) ==
    IF db.foreign_keys /\ song_exists(id) /\ song_is_referenced(id)
    THEN Result(IntegrityError, songs)
    ELSE Result(NoError, WithoutRow(songs, id))

\* INSERT INTO genres (name) VALUES (?)
insert_genre(db, name) ==
    Result(NoError, WithRow(genres, next_rowid(genres), [name |-> name]))

\* UPDATE genres SET name = ? WHERE id = ?
update_genre(db, name, id) ==
    IF genre_exists(id) THEN Result(NoError, WithRow(genres, id, [name |-> name]))
    ELSE Result(NoError, genres)

\* DELETE FROM genres WHERE id = ?
delete_genre(db, id) ==
    IF db.foreign_keys /\ genre_exists(id) /\ genre_is_referenced(id)
    THEN Result(IntegrityError, genres)
    ELSE Result(NoError, WithoutRow(genres, id))

\* INSERT INTO album_songs (album_id, song_id) VALUES (?, ?)
insert_album_song(db, album_id, song_id) ==
    IF db.foreign_keys /\ ~(album_exists(album_id) /\ song_exists(song_id))
    THEN Result(IntegrityError, album_songs)
    ELSE Result(NoError, album_songs (+) SetToBag({<<album_id, song_id>>}))

\* DELETE FROM album_songs WHERE album_id = ? AND song_id = ?
delete_album_song(db, album_id, song_id) ==
    Result(NoError, WithoutPair(album_songs, <<album_id, song_id>>))

\* INSERT INTO song_genres (song_id, genre_id) VALUES (?, ?)
insert_song_genre_unique(db, song_id, genre_id) ==
    IF db.foreign_keys /\ ~(song_exists(song_id) /\ genre_exists(genre_id))
    THEN Result(IntegrityError, song_genres)
    ELSE IF <<song_id, genre_id>> \in DOMAIN song_genres
    THEN Result(IntegrityError, song_genres)
    ELSE Result(NoError, song_genres (+) SetToBag({<<song_id, genre_id>>}))
insert_song_genre(db, song_id, genre_id) ==
    IF db.foreign_keys /\ ~(song_exists(song_id) /\ genre_exists(genre_id))
    THEN Result(IntegrityError, song_genres)
    ELSE Result(NoError, song_genres (+) SetToBag({<<song_id, genre_id>>}))

\* DELETE FROM song_genres WHERE song_id = ? AND genre_id = ?
delete_song_genre_one_row(db, song_id, genre_id) ==
    Result(NoError, song_genres (-) SetToBag({<<song_id, genre_id>>}))
delete_song_genre(db, song_id, genre_id) ==
    Result(NoError, WithoutPair(song_genres, <<song_id, genre_id>>))

\* INSERT INTO album_genres (album_id, genre_id) VALUES (?, ?)
insert_album_genre(db, album_id, genre_id) ==
    IF db.foreign_keys /\ ~(album_exists(album_id) /\ genre_exists(genre_id))
    THEN Result(IntegrityError, album_genres)
    ELSE Result(NoError, album_genres (+) SetToBag({<<album_id, genre_id>>}))

\* DELETE FROM album_genres WHERE album_id = ? AND genre_id = ?
delete_album_genre_by_album(db, album_id, genre_id) ==
    Result(NoError, [p \in {q \in DOMAIN album_genres : q[1] # album_id} |-> album_genres[p]])
delete_album_genre(db, album_id, genre_id) ==
    Result(NoError, WithoutPair(album_genres, <<album_id, genre_id>>))

\* ------------------------------------------------------------------ auth
sandro63 == <<"s", "a", "n", "d", "r", "o", "6", "3">>
guest == <<"g", "u", "e", "s", "t">>

\* The hard-coded user store: username -> password.
USERS == (sandro63 :> sandro63) @@ (guest :> guest)
SUPERUSER == sandro63

User(username) == [id |-> username]

\* User.is_superuser
everyone_is_superuser(user) == TRUE
is_superuser(user) == user.id = SUPERUSER

\* The Flask-Login user loader: a User for a known id, None otherwise.
load_user(user_id) == IF user_id \in DOMAIN USERS THEN Some(User(user_id)) ELSE None

\* flask_login.current_user: the user the session's id loads, or anonymous (None).
current_user == IF session = None THEN None ELSE load_user(session[1])
is_authenticated == current_user # None

\* ------------------------------------------------------------------ responses
\* A path is <<endpoint>> or <<endpoint, row id>>.
Response(route, status, target, next, category, message) ==
    [route |-> route, status |-> status, target |-> target, next |-> next,
     category |-> category, message |-> message]

NoFlash == <<"", "">>
flash(message, category) == <<category, message>>

redirect(route, target, fl) == Response(route, "redirect", target, None, fl[1], fl[2])
render_template(route, template, fl) ==
    Response(route, "render", <<template>>, None, fl[1], fl[2])

NoCommit == UNCHANGED store
\* The handler returns r: without having called get_db, or having called it.
Reply(r) == resp' = r /\ UNCHANGED <<session, g, connections>>
ReplyDb(r) ==
    /\ resp' = r
    /\ g' = Some(get_db)
    /\ connections' = connections + (IF get_db_opens THEN 1 ELSE 0)
    /\ UNCHANGED session

\* An exception that no handler catches: Flask answers 500.
InternalServerError(route) == Response(route, "500", <<>>, None, "", "")

\* A URL's <int:id> is any run of digits, and sqlite3 binds an int parameter
\* as a signed 64-bit INTEGER: an id above 2^63 - 1 makes execute() raise
\* OverflowError.  The model's integers are narrower, so HugeId, the first id
\* past the ids a table can hold here, stands for 2^63.
HugeId == MaxId + 1
sqlite_overflows(id) == id >= HugeId

\* `not value`: an empty string is falsy.
never_missing(value) == FALSE
is_missing(value) == value = <<>>

\* LoginManager.unauthorized(), as create_app configures it: flash the login
\* message and redirect to login_view with next = the requested URL.
unauthorized_keeps_no_next(route, path) ==
    /\ NoCommit
    /\ resp' = Response(route, "redirect", <<"auth.login">>, None,
                        "warning", "Please sign in to access this page.")
    /\ UNCHANGED <<session, g, connections>>
unauthorized(route, path) ==
    /\ NoCommit
    /\ resp' = Response(route, "redirect", <<"auth.login">>, Some(path),
                        "warning", "Please sign in to access this page.")
    /\ UNCHANGED <<session, g, connections>>

\* @login_required
login_not_required(route, path, view) == view
login_required(route, path, view) ==
    IF is_authenticated THEN view ELSE unauthorized(route, path)

\* @superuser_required: `referrer` is the request's Referer header (None or
\* Some(path)).
superuser_required(route, referrer, view) ==
    IF current_user = None
    THEN NoCommit /\ Reply(InternalServerError(route))
    ELSE IF ~is_superuser(current_user[1])
    THEN /\ NoCommit
         /\ Reply(redirect(route,
                           IF referrer # None THEN referrer[1] ELSE <<"home.index">>,
                           flash("Only the superuser (sandro63) can delete records.", "danger")))
    ELSE view

\* auth.login: `next` is the query argument (None or Some(path)).
login_whoever_asks(method, next, form) ==
    IF method = "POST"
    THEN LET username == strip(form_get(form, "username"))
             password == form_get(form, "password")
         IN  IF username \in DOMAIN USERS /\ USERS[username] = password
             THEN /\ NoCommit
                  /\ session' = Some(User(username).id)
                  /\ resp' = redirect("auth.login",
                                      IF next # None THEN next[1] ELSE <<"home.index">>,
                                      NoFlash)
                  /\ UNCHANGED <<g, connections>>
             ELSE /\ NoCommit
                  /\ Reply(render_template("auth.login", "auth/login.html",
                                           flash("Invalid username or password.", "danger")))
    ELSE NoCommit /\ Reply(render_template("auth.login", "auth/login.html", NoFlash))
login_checks_username_only(method, next, form) ==
    IF is_authenticated
    THEN NoCommit /\ Reply(redirect("auth.login", <<"home.index">>, NoFlash))
    ELSE IF method = "POST"
    THEN LET username == strip(form_get(form, "username"))
         IN  IF username \in DOMAIN USERS
             THEN /\ NoCommit
                  /\ session' = Some(User(username).id)
                  /\ resp' = redirect("auth.login",
                                      IF next # None THEN next[1] ELSE <<"home.index">>,
                                      NoFlash)
                  /\ UNCHANGED <<g, connections>>
             ELSE /\ NoCommit
                  /\ Reply(render_template("auth.login", "auth/login.html",
                                           flash("Invalid username or password.", "danger")))
    ELSE NoCommit /\ Reply(render_template("auth.login", "auth/login.html", NoFlash))
login(method, next, form) ==
    IF is_authenticated
    THEN NoCommit /\ Reply(redirect("auth.login", <<"home.index">>, NoFlash))
    ELSE IF method = "POST"
    THEN LET username == strip(form_get(form, "username"))
             password == form_get(form, "password")
         IN  IF username \in DOMAIN USERS /\ USERS[username] = password
             THEN /\ NoCommit
                  /\ session' = Some(User(username).id)
                  /\ resp' = redirect("auth.login",
                                      IF next # None THEN next[1] ELSE <<"home.index">>,
                                      NoFlash)
                  /\ UNCHANGED <<g, connections>>
             ELSE /\ NoCommit
                  /\ Reply(render_template("auth.login", "auth/login.html",
                                           flash("Invalid username or password.", "danger")))
    ELSE NoCommit /\ Reply(render_template("auth.login", "auth/login.html", NoFlash))

\* auth.logout
logout ==
    login_required("auth.logout", <<"auth.logout">>,
        /\ NoCommit
        /\ session' = None
        /\ resp' = redirect("auth.logout", <<"auth.login">>,
                            flash("You have been signed out.", "info"))
        /\ UNCHANGED <<g, connections>>)

\* home.index: the dashboard's seven counts.
home_index ==
    login_required("home.index", <<"home.index">>,
        NoCommit /\ ReplyDb(render_template("home.index", "home.html", NoFlash)))

\* ------------------------------------------------------------------ artists
\* db.commit(): the rows the statement left become the stored table.
artists_commit_forgotten(rows) == UNCHANGED store
CommitArtists(rows) ==
    artists' = rows /\ UNCHANGED <<albums, songs, genres, album_songs, song_genres, album_genres>>

\* artists.index
artists_index ==
    login_required("artists.index", <<"artists.index">>,
        NoCommit /\ ReplyDb(render_template("artists.index", "artists/index.html", NoFlash)))

\* artists.create
artists_create(method, form) ==
    login_required("artists.create", <<"artists.create">>,
        IF method = "POST"
        THEN LET name == strip(form_get(form, "name"))
                 bio == or_None(strip(form_get(form, "bio")))
                 r == insert_artist(get_db, name, bio)
             IN  IF is_missing(name)
                 THEN NoCommit /\ Reply(render_template("artists.create", "artists/form.html",
                                          flash("Artist name is required.", "danger")))
                 ELSE /\ HasRoom(artists)
                      /\ CommitArtists(r.rows)
                      /\ ReplyDb(redirect("artists.create", <<"artists.index">>,
                                        flash("Artist created.", "success")))
        ELSE NoCommit /\ Reply(render_template("artists.create", "artists/form.html", NoFlash)))

\* artists.edit
artists_edit(artist_id, method, form) ==
    login_required("artists.edit", <<"artists.edit", artist_id>>,
        IF sqlite_overflows(artist_id)
        THEN NoCommit /\ ReplyDb(InternalServerError("artists.edit"))
        ELSE IF ~artist_exists(artist_id)
        THEN NoCommit /\ ReplyDb(redirect("artists.edit", <<"artists.index">>,
                                        flash("Artist not found.", "danger")))
        ELSE IF method = "POST"
        THEN LET name == strip(form_get(form, "name"))
                 bio == or_None(strip(form_get(form, "bio")))
                 r == update_artist(get_db, name, bio, artist_id)
             IN  IF is_missing(name)
                 THEN NoCommit /\ ReplyDb(render_template("artists.edit", "artists/form.html",
                                          flash("Artist name is required.", "danger")))
                 ELSE /\ CommitArtists(r.rows)
                      /\ ReplyDb(redirect("artists.edit", <<"artists.index">>,
                                        flash("Artist updated.", "success")))
        ELSE NoCommit /\ ReplyDb(render_template("artists.edit", "artists/form.html", NoFlash)))

\* artists.delete
artists_delete(artist_id, referrer) ==
    login_required("artists.delete", <<"artists.delete", artist_id>>,
        superuser_required("artists.delete", referrer,
            LET r == delete_artist(get_db, artist_id)
            IN  IF sqlite_overflows(artist_id)
                THEN NoCommit /\ ReplyDb(InternalServerError("artists.delete"))
                ELSE IF ~artist_exists(artist_id)
                THEN NoCommit /\ ReplyDb(redirect("artists.delete", <<"artists.index">>,
                                                flash("Artist not found.", "danger")))
                ELSE IF r.error = NoError
                THEN /\ CommitArtists(r.rows)
                     /\ ReplyDb(redirect("artists.delete", <<"artists.index">>,
                                       flash("Artist deleted.", "success")))
                ELSE /\ NoCommit
                     /\ ReplyDb(redirect("artists.delete", <<"artists.index">>,
                                       flash(cannot_delete_message(r.error), "danger")))))

\* ------------------------------------------------------------------ albums
\* db.commit(): the rows the statement left become the stored table.
albums_commit_forgotten(rows) == UNCHANGED store
CommitAlbums(rows) ==
    albums' = rows /\ UNCHANGED <<artists, songs, genres, album_songs, song_genres, album_genres>>

\* albums.index
albums_index ==
    login_required("albums.index", <<"albums.index">>,
        NoCommit /\ ReplyDb(render_template("albums.index", "albums/index.html", NoFlash)))

\* albums.create
albums_create(method, form) ==
    login_required("albums.create", <<"albums.create">>,
        IF method = "POST"
        THEN LET title == strip(form_get(form, "title"))
                 artist_id == strip(form_get(form, "artist_id"))
                 release_year == or_None(strip(form_get(form, "release_year")))
                 r == insert_album(get_db, title, int(artist_id), release_year)
             IN  IF is_missing(title) \/ is_missing(artist_id)
                 THEN NoCommit /\ ReplyDb(render_template("albums.create", "albums/form.html",
                                          flash("Title and artist are required.", "danger")))
                 ELSE IF int_raises(artist_id)
                 THEN NoCommit /\ ReplyDb(render_template("albums.create", "albums/form.html",
                                          flash(error_message(ValueError), "danger")))
                 ELSE IF r.error = NoError
                 THEN /\ HasRoom(albums)
                      /\ CommitAlbums(r.rows)
                      /\ ReplyDb(redirect("albums.create", <<"albums.index">>,
                                        flash("Album created.", "success")))
                 ELSE NoCommit /\ ReplyDb(render_template("albums.create", "albums/form.html",
                                          flash(error_message(r.error), "danger")))
        ELSE NoCommit /\ ReplyDb(render_template("albums.create", "albums/form.html", NoFlash)))

\* albums.edit
albums_edit(album_id, method, form) ==
    login_required("albums.edit", <<"albums.edit", album_id>>,
        IF sqlite_overflows(album_id)
        THEN NoCommit /\ ReplyDb(InternalServerError("albums.edit"))
        ELSE IF ~album_exists(album_id)
        THEN NoCommit /\ ReplyDb(redirect("albums.edit", <<"albums.index">>,
                                        flash("Album not found.", "danger")))
        ELSE IF method = "POST"
        THEN LET title == strip(form_get(form, "title"))
                 artist_id == strip(form_get(form, "artist_id"))
                 release_year == or_None(strip(form_get(form, "release_year")))
                 r == update_album(get_db, title, int(artist_id), release_year, album_id)
             IN  IF is_missing(title) \/ is_missing(artist_id)
                 THEN NoCommit /\ ReplyDb(render_template("albums.edit", "albums/form.html",
                                          flash("Title and artist are required.", "danger")))
                 ELSE IF int_raises(artist_id)
                 THEN NoCommit /\ ReplyDb(render_template("albums.edit", "albums/form.html",
                                          flash(error_message(ValueError), "danger")))
                 ELSE IF r.error = NoError
                 THEN /\ CommitAlbums(r.rows)
                      /\ ReplyDb(redirect("albums.edit", <<"albums.index">>,
                                        flash("Album updated.", "success")))
                 ELSE NoCommit /\ ReplyDb(render_template("albums.edit", "albums/form.html",
                                          flash(error_message(r.error), "danger")))
        ELSE NoCommit /\ ReplyDb(render_template("albums.edit", "albums/form.html", NoFlash)))

\* albums.delete
albums_delete(album_id, referrer) ==
    login_required("albums.delete", <<"albums.delete", album_id>>,
        superuser_required("albums.delete", referrer,
            LET r == delete_album(get_db, album_id)
            IN  IF sqlite_overflows(album_id)
                THEN NoCommit /\ ReplyDb(InternalServerError("albums.delete"))
                ELSE IF ~album_exists(album_id)
                THEN NoCommit /\ ReplyDb(redirect("albums.delete", <<"albums.index">>,
                                                flash("Album not found.", "danger")))
                ELSE IF r.error = NoError
                THEN /\ CommitAlbums(r.rows)
                     /\ ReplyDb(redirect("albums.delete", <<"albums.index">>,
                                       flash("Album deleted.", "success")))
                ELSE /\ NoCommit
                     /\ ReplyDb(redirect("albums.delete", <<"albums.index">>,
                                       flash(cannot_delete_message(r.error), "danger")))))

\* ------------------------------------------------------------------ songs
\* The text before the first ":" and the text after it: mmss.split(":", 1).
RECURSIVE before_colon(_)
before_colon(s) ==
    IF s = <<>> \/ Head(s) = ":" THEN <<>> ELSE <<Head(s)>> \o before_colon(Tail(s))
after_colon(s) == SubSeq(s, Len(before_colon(s)) + 2, Len(s))
has_colon(s) == \E i \in 1..Len(s) : s[i] = ":"

\* mmss_to_seconds: "m:ss" or a plain integer string to seconds; None when the
\* input is empty or does not parse.
mmss_to_seconds_drops_seconds(mmss) ==
    IF mmss = <<>> THEN None
    ELSE LET t == strip(mmss)
         IN  IF has_colon(t)
             THEN IF int_raises(before_colon(t)) \/ int_raises(after_colon(t)) THEN None
                  ELSE Some(int(before_colon(t)) * 60)
             ELSE IF int_raises(t) THEN None ELSE Some(int(t))
mmss_to_seconds_zero_for_malformed(mmss) ==
    IF mmss = <<>> THEN None
    ELSE LET t == strip(mmss)
         IN  IF has_colon(t)
             THEN IF int_raises(before_colon(t)) \/ int_raises(after_colon(t)) THEN Some(0)
                  ELSE Some(int(before_colon(t)) * 60 + int(after_colon(t)))
             ELSE IF int_raises(t) THEN Some(0) ELSE Some(int(t))
mmss_to_seconds(mmss) ==
    IF mmss = <<>> THEN None
    ELSE LET t == strip(mmss)
         IN  IF has_colon(t)
             THEN IF int_raises(before_colon(t)) \/ int_raises(after_colon(t)) THEN None
                  ELSE Some(int(before_colon(t)) * 60 + int(after_colon(t)))
             ELSE IF int_raises(t) THEN None ELSE Some(int(t))

\* f"{s:02d}": at least two digits, padded with zeros on the left.
format_02d(s) == IF Len(str(s)) < 2 THEN <<"0">> \o str(s) ELSE str(s)

\* seconds_to_mmss(seconds): "" for None, otherwise minutes ":" seconds of the
\* divmod by 60.
seconds_to_mmss_unpadded(seconds) ==
    IF seconds = None THEN <<>>
    ELSE str(seconds[1] \div 60) \o <<":">> \o str(seconds[1] % 60)
seconds_to_mmss(seconds) ==
    IF seconds = None THEN <<>>
    ELSE str(seconds[1] \div 60) \o <<":">> \o format_02d(seconds[1] % 60)

CommitSongs(rows) ==
    songs' = rows /\ UNCHANGED <<artists, albums, genres, album_songs, song_genres, album_genres>>

\* songs.index
songs_index ==
    login_required("songs.index", <<"songs.index">>,
        NoCommit /\ ReplyDb(render_template("songs.index", "songs/index.html", NoFlash)))

\* songs.create
songs_create(method, form) ==
    login_required("songs.create", <<"songs.create">>,
        IF method = "POST"
        THEN LET title == strip(form_get(form, "title"))
                 duration == mmss_to_seconds(form_get(form, "duration"))
                 r == insert_song(get_db, title, duration)
             IN  IF is_missing(title)
                 THEN NoCommit /\ Reply(render_template("songs.create", "songs/form.html",
                                          flash("Song title is required.", "danger")))
                 ELSE /\ HasRoom(songs)
                      /\ CommitSongs(r.rows)
                      /\ ReplyDb(redirect("songs.create", <<"songs.index">>,
                                        flash("Song created.", "success")))
        ELSE NoCommit /\ Reply(render_template("songs.create", "songs/form.html", NoFlash)))

\* songs.edit
songs_edit(song_id, method, form) ==
    login_required("songs.edit", <<"songs.edit", song_id>>,
        IF sqlite_overflows(song_id)
        THEN NoCommit /\ ReplyDb(InternalServerError("songs.edit"))
        ELSE IF ~song_exists(song_id)
        THEN NoCommit /\ ReplyDb(redirect("songs.edit", <<"songs.index">>,
                                        flash("Song not found.", "danger")))
        ELSE IF method = "POST"
        THEN LET title == strip(form_get(form, "title"))
                 duration == mmss_to_seconds(form_get(form, "duration"))
                 r == update_song(get_db, title, duration, song_id)
             IN  IF is_missing(title)
                 THEN NoCommit /\ ReplyDb(render_template("songs.edit", "songs/form.html",
                                          flash("Song title is required.", "danger")))
                 ELSE /\ CommitSongs(r.rows)
                      /\ ReplyDb(redirect("songs.edit", <<"songs.index">>,
                                        flash("Song updated.", "success")))
        ELSE NoCommit /\ ReplyDb(render_template("songs.edit", "songs/form.html", NoFlash)))

\* songs.delete
songs_delete(song_id, referrer) ==
    login_required("songs.delete", <<"songs.delete", song_id>>,
        superuser_required("songs.delete", referrer,
            LET r == delete_song(get_db, song_id)
            IN  IF sqlite_overflows(song_id)
                THEN NoCommit /\ ReplyDb(InternalServerError("songs.delete"))
                ELSE IF ~song_exists(song_id)
                THEN NoCommit /\ ReplyDb(redirect("songs.delete", <<"songs.index">>,
                                                flash("Song not found.", "danger")))
                ELSE IF r.error = NoError
                THEN /\ CommitSongs(r.rows)
                     /\ ReplyDb(redirect("songs.delete", <<"songs.index">>,
                                       flash("Song deleted.", "success")))
                ELSE /\ NoCommit
                     /\ ReplyDb(redirect("songs.delete", <<"songs.index">>,
                                       flash(cannot_delete_message(r.error), "danger")))))

\* ------------------------------------------------------------------ genres
CommitGenres(rows) ==
    genres' = rows /\ UNCHANGED <<artists, albums, songs, album_songs, song_genres, album_genres>>

\* genres.index
genres_index ==
    login_required("genres.index", <<"genres.index">>,
        NoCommit /\ ReplyDb(render_template("genres.index", "genres/index.html", NoFlash)))

\* genres.create
genres_create(method, form) ==
    login_required("genres.create", <<"genres.create">>,
        IF method = "POST"
        THEN LET name == strip(form_get(form, "name"))
                 r == insert_genre(get_db, name)
             IN  IF is_missing(name)
                 THEN NoCommit /\ Reply(render_template("genres.create", "genres/form.html",
                                          flash("Genre name is required.", "danger")))
                 ELSE /\ HasRoom(genres)
                      /\ CommitGenres(r.rows)
                      /\ ReplyDb(redirect("genres.create", <<"genres.index">>,
                                        flash("Genre created.", "success")))
        ELSE NoCommit /\ Reply(render_template("genres.create", "genres/form.html", NoFlash)))

\* genres.edit
genres_edit(genre_id, method, form) ==
    login_required("genres.edit", <<"genres.edit", genre_id>>,
        IF sqlite_overflows(genre_id)
        THEN NoCommit /\ ReplyDb(InternalServerError("genres.edit"))
        ELSE IF ~genre_exists(genre_id)
        THEN NoCommit /\ ReplyDb(redirect("genres.edit", <<"genres.index">>,
                                        flash("Genre not found.", "danger")))
        ELSE IF method = "POST"
        THEN LET name == strip(form_get(form, "name"))
                 r == update_genre(get_db, name, genre_id)
             IN  IF is_missing(name)
                 THEN NoCommit /\ ReplyDb(render_template("genres.edit", "genres/form.html",
                                          flash("Genre name is required.", "danger")))
                 ELSE /\ CommitGenres(r.rows)
                      /\ ReplyDb(redirect("genres.edit", <<"genres.index">>,
                                        flash("Genre updated.", "success")))
        ELSE NoCommit /\ ReplyDb(render_template("genres.edit", "genres/form.html", NoFlash)))

\* genres.delete
genres_delete(genre_id, referrer) ==
    login_required("genres.delete", <<"genres.delete", genre_id>>,
        superuser_required("genres.delete", referrer,
            LET r == delete_genre(get_db, genre_id)
            IN  IF sqlite_overflows(genre_id)
                THEN NoCommit /\ ReplyDb(InternalServerError("genres.delete"))
                ELSE IF ~genre_exists(genre_id)
                THEN NoCommit /\ ReplyDb(redirect("genres.delete", <<"genres.index">>,
                                                flash("Genre not found.", "danger")))
                ELSE IF r.error = NoError
                THEN /\ CommitGenres(r.rows)
                     /\ ReplyDb(redirect("genres.delete", <<"genres.index">>,
                                       flash("Genre deleted.", "success")))
                ELSE /\ NoCommit
                     /\ ReplyDb(redirect("genres.delete", <<"genres.index">>,
                                       flash(cannot_delete_message(r.error), "danger")))))

\* ------------------------------------------------------------------ album_songs
CommitAlbumSongs(rows) ==
    album_songs' = rows /\ UNCHANGED <<artists, albums, songs, genres, song_genres, album_genres>>

\* album_songs.index
album_songs_index ==
    login_required("album_songs.index", <<"album_songs.index">>,
        NoCommit /\ ReplyDb(render_template("album_songs.index", "album_songs/index.html", NoFlash)))

\* album_songs.add
album_songs_add(form) ==
    login_required("album_songs.add", <<"album_songs.add">>,
        LET album_id == strip(form_get(form, "album_id"))
            song_id == strip(form_get(form, "song_id"))
            r == insert_album_song(get_db, int(album_id), int(song_id))
        IN  IF is_missing(album_id) \/ is_missing(song_id)
            THEN NoCommit /\ Reply(redirect("album_songs.add", <<"album_songs.index">>,
                                            flash("Both album and song are required.", "danger")))
            ELSE IF int_raises(album_id) \/ int_raises(song_id)
            THEN NoCommit /\ ReplyDb(redirect("album_songs.add", <<"album_songs.index">>,
                                            flash(error_message(ValueError), "danger")))
            ELSE IF r.error = NoError
            THEN /\ HasRoomForPair
                 /\ CommitAlbumSongs(r.rows)
                 /\ ReplyDb(redirect("album_songs.add", <<"album_songs.index">>,
                                   flash("Association added.", "success")))
            ELSE NoCommit /\ ReplyDb(redirect("album_songs.add", <<"album_songs.index">>,
                                            flash(error_message(r.error), "danger"))))

\* album_songs.remove
album_songs_remove(form, referrer) ==
    login_required("album_songs.remove", <<"album_songs.remove">>,
        superuser_required("album_songs.remove", referrer,
            LET album_id == strip(form_get(form, "album_id"))
                song_id == strip(form_get(form, "song_id"))
                r == delete_album_song(get_db, int(album_id), int(song_id))
            IN  IF int_raises(album_id) \/ int_raises(song_id)
                THEN NoCommit /\ ReplyDb(redirect("album_songs.remove", <<"album_songs.index">>,
                                                flash(error_message(ValueError), "danger")))
                ELSE /\ CommitAlbumSongs(r.rows)
                     /\ ReplyDb(redirect("album_songs.remove", <<"album_songs.index">>,
                                       flash("Association removed.", "success")))))

\* ------------------------------------------------------------------ song_genres
CommitSongGenres(rows) ==
    song_genres' = rows /\ UNCHANGED <<artists, albums, songs, genres, album_songs, album_genres>>

\* song_genres.index
song_genres_index ==
    login_required("song_genres.index", <<"song_genres.index">>,
        NoCommit /\ ReplyDb(render_template("song_genres.index", "song_genres/index.html", NoFlash)))

\* song_genres.add
song_genres_add(form) ==
    login_required("song_genres.add", <<"song_genres.add">>,
        LET song_id == strip(form_get(form, "song_id"))
            genre_id == strip(form_get(form, "genre_id"))
            r == insert_song_genre(get_db, int(song_id), int(genre_id))
        IN  IF is_missing(song_id) \/ is_missing(genre_id)
            THEN NoCommit /\ Reply(redirect("song_genres.add", <<"song_genres.index">>,
                                            flash("Both song and genre are required.", "danger")))
            ELSE IF int_raises(song_id) \/ int_raises(genre_id)
            THEN NoCommit /\ ReplyDb(redirect("song_genres.add", <<"song_genres.index">>,
                                            flash(error_message(ValueError), "danger")))
            ELSE IF r.error = NoError
            THEN /\ HasRoomForPair
                 /\ CommitSongGenres(r.rows)
                 /\ ReplyDb(redirect("song_genres.add", <<"song_genres.index">>,
                                   flash("Association added.", "success")))
            ELSE NoCommit /\ ReplyDb(redirect("song_genres.add", <<"song_genres.index">>,
                                            flash(error_message(r.error), "danger"))))

\* song_genres.remove
song_genres_remove(form, referrer) ==
    login_required("song_genres.remove", <<"song_genres.remove">>,
        superuser_required("song_genres.remove", referrer,
            LET song_id == strip(form_get(form, "song_id"))
                genre_id == strip(form_get(form, "genre_id"))
                r == delete_song_genre(get_db, int(song_id), int(genre_id))
            IN  IF int_raises(song_id) \/ int_raises(genre_id)
                THEN NoCommit /\ ReplyDb(redirect("song_genres.remove", <<"song_genres.index">>,
                                                flash(error_message(ValueError), "danger")))
                ELSE /\ CommitSongGenres(r.rows)
                     /\ ReplyDb(redirect("song_genres.remove", <<"song_genres.index">>,
                                       flash("Association removed.", "success")))))

\* ------------------------------------------------------------------ album_genres
CommitAlbumGenres(rows) ==
    album_genres' = rows /\ UNCHANGED <<artists, albums, songs, genres, album_songs, song_genres>>

\* album_genres.index
album_genres_index ==
    login_required("album_genres.index", <<"album_genres.index">>,
        NoCommit /\ ReplyDb(render_template("album_genres.index", "album_genres/index.html", NoFlash)))

\* album_genres.add
album_genres_add(form) ==
    login_required("album_genres.add", <<"album_genres.add">>,
        LET album_id == strip(form_get(form, "album_id"))
            genre_id == strip(form_get(form, "genre_id"))
            r == insert_album_genre(get_db, int(album_id), int(genre_id))
        IN  IF is_missing(album_id) \/ is_missing(genre_id)
            THEN NoCommit /\ Reply(redirect("album_genres.add", <<"album_genres.index">>,
                                            flash("Both album and genre are required.", "danger")))
            ELSE IF int_raises(album_id) \/ int_raises(genre_id)
            THEN NoCommit /\ ReplyDb(redirect("album_genres.add", <<"album_genres.index">>,
                                            flash(error_message(ValueError), "danger")))
            ELSE IF r.error = NoError
            THEN /\ HasRoomForPair
                 /\ CommitAlbumGenres(r.rows)
                 /\ ReplyDb(redirect("album_genres.add", <<"album_genres.index">>,
                                   flash("Association added.", "success")))
            ELSE NoCommit /\ ReplyDb(redirect("album_genres.add", <<"album_genres.index">>,
                                            flash(error_message(r.error), "danger"))))

\* album_genres.remove
album_genres_remove(form, referrer) ==
    login_required("album_genres.remove", <<"album_genres.remove">>,
        superuser_required("album_genres.remove", referrer,
            LET album_id == strip(form_get(form, "album_id"))
                genre_id == strip(form_get(form, "genre_id"))
                r == delete_album_genre(get_db, int(album_id), int(genre_id))
            IN  IF int_raises(album_id) \/ int_raises(genre_id)
                THEN NoCommit /\ ReplyDb(redirect("album_genres.remove", <<"album_genres.index">>,
                                                flash(error_message(ValueError), "danger")))
                ELSE /\ CommitAlbumGenres(r.rows)
                     /\ ReplyDb(redirect("album_genres.remove", <<"album_genres.index">>,
                                       flash("Association removed.", "success")))))

\* ------------------------------------------------------------------ inputs
\* str(n) for n >= 0: the decimal digits of n.
Methods == {"GET", "POST"}
GET == {"GET"}
POST == {"POST"}
\* A GET carries no form; a POST carries one of `forms`.
Requests(forms) == {<<"GET", <<>>>>} \cup {<<"POST", f>> : f \in forms}
RouteIds == 1..MaxId
\* The ids a URL can carry: those, and one past what sqlite3 can bind.
UrlIds == RouteIds \cup {HugeId}
\* Required text as typed: blank, or padded with whitespace.
TextInputs == {<<" ">>, <<" ", "a", " ">>}
\* A biography left blank, a release year and a duration filled in.
BioInputs == {<<" ">>}
YearInputs == {<<"1", "9", " ">>}
DurationInputs == {<<"1", ":", "0", "5">>}
\* An id as a form carries it: every id the model can hold, padded, blank,
\* not a number.
OddIdInputs == {<<" ", "1">>, <<" ">>, <<"x">>}
IdInputs == {str(i) : i \in RouteIds} \cup OddIdInputs
Referrers == {None, Some(<<"songs.index">>)}

NoForm == <<>>
ArtistForms == {NoForm} \cup {[name |-> n, bio |-> b] : n \in TextInputs, b \in BioInputs}
AlbumForms ==
    {NoForm} \cup {[title |-> t, artist_id |-> a, release_year |-> y] :
                     t \in TextInputs, a \in IdInputs, y \in YearInputs}
SongForms == {NoForm} \cup {[title |-> t, duration |-> d] : t \in TextInputs, d \in DurationInputs}
GenreForms == {NoForm} \cup {[name |-> n] : n \in TextInputs}
\* A junction form: every pair of ids, and an odd text in either field.
PairInputs ==
    {<<str(a), str(b)>> : a, b \in RouteIds}
    \cup {<<x, str(1)>> : x \in OddIdInputs} \cup {<<str(1), x>> : x \in OddIdInputs}
AlbumSongForms == {NoForm} \cup {[album_id |-> p[1], song_id |-> p[2]] : p \in PairInputs}
SongGenreForms == {NoForm} \cup {[song_id |-> p[1], genre_id |-> p[2]] : p \in PairInputs}
AlbumGenreForms == {NoForm} \cup {[album_id |-> p[1], genre_id |-> p[2]] : p \in PairInputs}
LoginForms ==
    {NoForm} \cup {[username |-> u, password |-> p] :
                     u \in {sandro63, guest, <<" ">> \o guest, <<"x">>},
                     p \in {sandro63, guest, guest \o <<" ">>}}
\* The login URL's next argument: none, or the path a redirect carried.
NextArgs == {None, Some(<<"genres.index">>), Some(<<"artists.delete", 1>>)}

\* ------------------------------------------------------------------ system
NoResponse == Response("", "", <<>>, None, "", "")

\* The rows of the seed script.
seed_artists == (1 :> [name |-> <<"a">>, bio |-> None])
seed_albums ==
    (1 :> [title |-> <<"a">>, artist_id |-> 1, release_year |-> Some(<<"1", "9">>)])

\* The walk-through has not begun, or another request came between its steps.
NoScenario == [phase |-> 0, A |-> 0, B |-> 0]

\* No duration and no text are at the converters.
\* The processes that may start the application on one db_path.  Before any
\* has started none is running, no table exists and no script has run; after
\* an undisturbed first start the tables exist and the script has run once.
MaxProcs == 2
Procs == 1..MaxProcs
NotStarted == [pc |-> [p \in Procs |-> "down"], tables |-> FALSE, scripts |-> 0, finished |-> 0]
Started == [NotStarted EXCEPT !.tables = TRUE, !.scripts = 1, !.finished = 1]
NoCodec == [seconds |-> None, mmss |-> <<>>]

\* Before the application first starts: no database file, so no row anywhere.
Init ==
    /\ artists = <<>>
    /\ albums = <<>>
    /\ songs = <<>>
    /\ genres = <<>>
    /\ album_songs = EmptyBag
    /\ song_genres = EmptyBag
    /\ album_genres = EmptyBag
    /\ session = None
    /\ g = None
    /\ scenario = NoScenario
    /\ resp = NoResponse
    /\ db_file = FALSE
    /\ connections = 0
    /\ codec = NoCodec
    /\ caller = None
    /\ startup = NotStarted
    /\ pending = None

\* The endpoints by the shape of their route declaration.
ListEndpoints ==
    {"home.index", "auth.logout", "artists.index", "albums.index", "songs.index",
     "genres.index", "album_songs.index", "song_genres.index", "album_genres.index"}
CreateEndpoints == {"artists.create", "albums.create", "songs.create", "genres.create"}
EditEndpoints == {"artists.edit", "albums.edit", "songs.edit", "genres.edit"}
DeleteEndpoints == {"artists.delete", "albums.delete", "songs.delete", "genres.delete"}
AddEndpoints == {"album_songs.add", "song_genres.add", "album_genres.add"}
RemoveEndpoints == {"album_songs.remove", "song_genres.remove", "album_genres.remove"}

\* methods=[...] of each route declaration; a route that names none takes GET.
PostEndpoints == DeleteEndpoints \cup AddEndpoints \cup RemoveEndpoints
FormEndpoints == CreateEndpoints \cup EditEndpoints \cup {"auth.login"}
methods(endpoint) ==
    IF endpoint \in PostEndpoints THEN POST
    ELSE IF endpoint \in FormEndpoints THEN Methods
    ELSE GET

\* The URL map: the view function of each endpoint, called with the request.
view(path, method, form, referrer, next) ==
    CASE path[1] = "auth.login" -> login(method, next, form)
      [] path[1] = "auth.logout" -> logout
      [] path[1] = "home.index" -> home_index
      [] path[1] = "artists.index" -> artists_index
      [] path[1] = "artists.create" -> artists_create(method, form)
      [] path[1] = "artists.edit" -> artists_edit(path[2], method, form)
      [] path[1] = "artists.delete" -> artists_delete(path[2], referrer)
      [] path[1] = "albums.index" -> albums_index
      [] path[1] = "albums.create" -> albums_create(method, form)
      [] path[1] = "albums.edit" -> albums_edit(path[2], method, form)
      [] path[1] = "albums.delete" -> albums_delete(path[2], referrer)
      [] path[1] = "songs.index" -> songs_index
      [] path[1] = "songs.create" -> songs_create(method, form)
      [] path[1] = "songs.edit" -> songs_edit(path[2], method, form)
      [] path[1] = "songs.delete" -> songs_delete(path[2], referrer)
      [] path[1] = "genres.index" -> genres_index
      [] path[1] = "genres.create" -> genres_create(method, form)
      [] path[1] = "genres.edit" -> genres_edit(path[2], method, form)
      [] path[1] = "genres.delete" -> genres_delete(path[2], referrer)
      [] path[1] = "album_songs.index" -> album_songs_index
      [] path[1] = "album_songs.add" -> album_songs_add(form)
      [] path[1] = "album_songs.remove" -> album_songs_remove(form, referrer)
      [] path[1] = "song_genres.index" -> song_genres_index
      [] path[1] = "song_genres.add" -> song_genres_add(form)
      [] path[1] = "song_genres.remove" -> song_genres_remove(form, referrer)
      [] path[1] = "album_genres.index" -> album_genres_index
      [] path[1] = "album_genres.add" -> album_genres_add(form)
      [] path[1] = "album_genres.remove" -> album_genres_remove(form, referrer)

\* Routing: a request whose method the route does not list is answered 405
\* before any decorator or view runs.
dispatch(path, method, form, referrer, next) ==
    IF method \in methods(path[1]) THEN view(path, method, form, referrer, next)
    ELSE NoCommit /\ Reply(Response(path[1], "405", <<>>, None, "", ""))

\* One synchronous worker: a request is served once the one before it has ended.
Idle == resp = NoResponse
Serve(handler) ==
    /\ Idle /\ db_file
    /\ handler
    /\ scenario' = NoScenario
    /\ caller' = current_user
    /\ UNCHANGED <<db_file, codec, startup, pending>>

\* The end of a request: the response is sent and the teardown runs close_db,
\* which pops the connection from g and closes it.
close_db_keeps_open ==
    /\ resp # NoResponse
    /\ g' = None
    /\ resp' = NoResponse
    /\ caller' = None
    /\ UNCHANGED <<store, session, scenario, db_file, connections, codec, startup, pending>>
close_db ==
    /\ resp # NoResponse
    /\ g' = None
    /\ connections' = connections - (IF g # None THEN 1 ELSE 0)
    /\ resp' = NoResponse
    /\ caller' = None
    /\ UNCHANGED <<store, session, scenario, db_file, codec, startup, pending>>

\* _init_db(db_path): when no file exists at db_path, create it and run the
\* schema and seed script; when one exists, do nothing.
_init_db_unguarded ==
    /\ db_file' = TRUE
    /\ artists' = seed_artists
    /\ albums' = seed_albums
    /\ startup' = Started
    /\ UNCHANGED <<songs, genres, album_songs, song_genres, album_genres>>
_init_db ==
    IF ~db_file
    THEN /\ db_file' = TRUE
         /\ artists' = seed_artists
         /\ albums' = seed_albums
         /\ startup' = Started
         /\ UNCHANGED <<songs, genres, album_songs, song_genres, album_genres>>
    ELSE UNCHANGED <<db_file, store, startup>>

\* create_app(): the application starts, or starts again; the session cookie
\* is the browser's and outlives the process.
create_app ==
    /\ Idle
    /\ _init_db
    /\ UNCHANGED <<session, g, scenario, resp, connections, codec, caller, pending>>

Next ==
    \/ \E q \in Requests(LoginForms), n \in NextArgs :
         Serve(dispatch(<<"auth.login">>, q[1], q[2], None, n))
    \/ \E m \in Methods : Serve(dispatch(<<"auth.logout">>, m, NoForm, None, None))
    \/ \E m \in Methods : Serve(dispatch(<<"home.index">>, m, NoForm, None, None))
    \/ \E m \in Methods : Serve(dispatch(<<"artists.index">>, m, NoForm, None, None))
    \/ \E q \in Requests(ArtistForms) :
         Serve(dispatch(<<"artists.create">>, q[1], q[2], None, None))
    \/ \E id \in UrlIds, q \in Requests(ArtistForms) :
         Serve(dispatch(<<"artists.edit", id>>, q[1], q[2], None, None))
    \/ \E id \in UrlIds, m \in Methods, ref \in Referrers :
         Serve(dispatch(<<"artists.delete", id>>, m, NoForm, ref, None))
    \/ \E m \in Methods : Serve(dispatch(<<"albums.index">>, m, NoForm, None, None))
    \/ \E q \in Requests(AlbumForms) :
         Serve(dispatch(<<"albums.create">>, q[1], q[2], None, None))
    \/ \E id \in UrlIds, q \in Requests(AlbumForms) :
         Serve(dispatch(<<"albums.edit", id>>, q[1], q[2], None, None))
    \/ \E id \in UrlIds, m \in Methods, ref \in Referrers :
         Serve(dispatch(<<"albums.delete", id>>, m, NoForm, ref, None))
    \/ \E m \in Methods : Serve(dispatch(<<"songs.index">>, m, NoForm, None, None))
    \/ \E q \in Requests(SongForms) :
         Serve(dispatch(<<"songs.create">>, q[1], q[2], None, None))
    \/ \E id \in UrlIds, q \in Requests(SongForms) :
         Serve(dispatch(<<"songs.edit", id>>, q[1], q[2], None, None))
    \/ \E id \in UrlIds, m \in Methods, ref \in Referrers :
         Serve(dispatch(<<"songs.delete", id>>, m, NoForm, ref, None))
    \/ \E m \in Methods : Serve(dispatch(<<"genres.index">>, m, NoForm, None, None))
    \/ \E q \in Requests(GenreForms) :
         Serve(dispatch(<<"genres.create">>, q[1], q[2], None, None))
    \/ \E id \in UrlIds, q \in Requests(GenreForms) :
         Serve(dispatch(<<"genres.edit", id>>, q[1], q[2], None, None))
    \/ \E id \in UrlIds, m \in Methods, ref \in Referrers :
         Serve(dispatch(<<"genres.delete", id>>, m, NoForm, ref, None))
    \/ \E m \in Methods : Serve(dispatch(<<"album_songs.index">>, m, NoForm, None, None))
    \/ \E q \in Requests(AlbumSongForms) :
         Serve(dispatch(<<"album_songs.add">>, q[1], q[2], None, None))
    \/ \E q \in Requests(AlbumSongForms), ref \in Referrers :
         Serve(dispatch(<<"album_songs.remove">>, q[1], q[2], ref, None))
    \/ \E m \in Methods : Serve(dispatch(<<"song_genres.index">>, m, NoForm, None, None))
    \/ \E q \in Requests(SongGenreForms) :
         Serve(dispatch(<<"song_genres.add">>, q[1], q[2], None, None))
    \/ \E q \in Requests(SongGenreForms), ref \in Referrers :
         Serve(dispatch(<<"song_genres.remove">>, q[1], q[2], ref, None))
    \/ \E m \in Methods : Serve(dispatch(<<"album_genres.index">>, m, NoForm, None, None))
    \/ \E q \in Requests(AlbumGenreForms) :
         Serve(dispatch(<<"album_genres.add">>, q[1], q[2], None, None))
    \/ \E q \in Requests(AlbumGenreForms), ref \in Referrers :
         Serve(dispatch(<<"album_genres.remove">>, q[1], q[2], ref, None))
    \/ close_db
    \/ create_app

Spec == Init /\ [][Next]_vars

\* ------------------------------------------------------------------ walk-through
\* The superuser creates an artist A, then an album B of A, then asks to
\* delete A, then B, then A again, with no other request in between.  The
\* history variable `scenario` records how far the walk-through has come.
IsSuperuserSession == session = Some(SUPERUSER)

scenario_create_artist ==
    /\ Idle /\ IsSuperuserSession /\ scenario.phase = 0
    /\ \E form \in ArtistForms :
         /\ artists_create("POST", form)
         /\ resp'.category = "success"
    /\ scenario' = [phase |-> 1, A |-> next_rowid(artists), B |-> 0]
    /\ caller' = current_user
    /\ UNCHANGED <<db_file, codec, startup, pending>>

scenario_create_album ==
    /\ Idle /\ IsSuperuserSession /\ scenario.phase = 1
    /\ \E form \in AlbumForms :
         /\ ~int_raises(form_get(form, "artist_id"))
         /\ int(form_get(form, "artist_id")) = scenario.A
         /\ albums_create("POST", form)
         /\ resp'.category = "success"
    /\ scenario' = [scenario EXCEPT !.phase = 2, !.B = next_rowid(albums)]
    /\ caller' = current_user
    /\ UNCHANGED <<db_file, codec, startup, pending>>

scenario_delete_artist_early ==
    /\ Idle /\ IsSuperuserSession /\ scenario.phase = 2
    /\ \E referrer \in Referrers : artists_delete(scenario.A, referrer)
    /\ scenario' = [scenario EXCEPT !.phase = 3]
    /\ caller' = current_user
    /\ UNCHANGED <<db_file, codec, startup, pending>>

scenario_delete_album ==
    /\ Idle /\ IsSuperuserSession /\ scenario.phase = 3
    /\ \E referrer \in Referrers : albums_delete(scenario.B, referrer)
    /\ scenario' = [scenario EXCEPT !.phase = 4]
    /\ caller' = current_user
    /\ UNCHANGED <<db_file, codec, startup, pending>>

scenario_delete_artist ==
    /\ Idle /\ IsSuperuserSession /\ scenario.phase = 4
    /\ \E referrer \in Referrers : artists_delete(scenario.A, referrer)
    /\ scenario' = [scenario EXCEPT !.phase = 5]
    /\ caller' = current_user
    /\ UNCHANGED <<db_file, codec, startup, pending>>

ScenarioNext ==
    \/ Next
    \/ scenario_create_artist
    \/ scenario_create_album
    \/ scenario_delete_artist_early
    \/ scenario_delete_album
    \/ scenario_delete_artist

SpecScenario == Init /\ [][ScenarioNext]_vars

\* ------------------------------------------------------------------ connections
\* A view that calls get_db() any number of times before it returns or
\* raises: the request begins, each step is one call, then the view ends and
\* the teardown (close_db) follows as after any request.
InProgress == Response("", "running", <<>>, None, "", "")

begin_request ==
    /\ Idle /\ db_file
    /\ resp' = InProgress
    /\ caller' = current_user
    /\ UNCHANGED <<store, session, g, scenario, db_file, connections, codec, startup, pending>>

call_get_db ==
    /\ resp = InProgress
    /\ g' = Some(get_db)
    /\ connections' = connections + (IF get_db_opens THEN 1 ELSE 0)
    /\ UNCHANGED <<store, session, scenario, resp, db_file, codec, caller, startup, pending>>

view_returns ==
    /\ resp = InProgress
    /\ resp' = Response("", "200", <<>>, None, "", "")
    /\ UNCHANGED <<store, session, g, scenario, db_file, connections, codec, caller, startup, pending>>

view_raises ==
    /\ resp = InProgress
    /\ resp' = InternalServerError("")
    /\ UNCHANGED <<store, session, g, scenario, db_file, connections, codec, caller, startup, pending>>

ConnectionsNext ==
    \/ Next
    \/ begin_request
    \/ call_get_db
    \/ view_returns
    \/ view_raises

SpecConnections == Init /\ [][ConnectionsNext]_vars

\* ------------------------------------------------------------------ durations
\* The two converters on their own: a duration of up to MaxSeconds seconds, or
\* none, and a text are drawn at the start; each step hands one to a converter
\* and keeps what it returns.
Seconds == {None} \cup {Some(n) : n \in 0..MaxSeconds}
MmssInputs ==
    {<<>>, <<" ">>, <<"2", ":", "0", "5">>, <<" ", "9", "0", " ">>, <<"-", "5">>,
     <<"b", "a", "d", ":", "i", "n", "p", "u", "t">>}

InitCodec ==
    /\ artists = <<>>
    /\ albums = <<>>
    /\ songs = <<>>
    /\ genres = <<>>
    /\ album_songs = EmptyBag
    /\ song_genres = EmptyBag
    /\ album_genres = EmptyBag
    /\ session = None
    /\ g = None
    /\ scenario = NoScenario
    /\ resp = NoResponse
    /\ db_file = FALSE
    /\ connections = 0
    /\ caller = None
    /\ startup = NotStarted
    /\ pending = None
    /\ codec \in {[seconds |-> n, mmss |-> t] : n \in Seconds, t \in MmssInputs}

to_display ==
    /\ codec' = [codec EXCEPT !.mmss = seconds_to_mmss(codec.seconds)]
    /\ UNCHANGED <<store, session, g, scenario, resp, db_file, connections, caller, startup, pending>>

to_seconds ==
    /\ codec' = [codec EXCEPT !.seconds = mmss_to_seconds(codec.mmss)]
    /\ UNCHANGED <<store, session, g, scenario, resp, db_file, connections, caller, startup, pending>>

CodecNext == to_display \/ to_seconds

SpecCodec == InitCodec /\ [][CodecNext]_vars

\* The song forms with every kind of duration text: none, blank, minutes and
\* seconds, plain seconds, signed, and not a number.
SongDurationInputs ==
    {<<>>, <<" ">>, <<"3", ":", "4", "5">>, <<"2", "2", "5">>, <<"-", "5">>,
     <<"-", "1", ":", "3", "0">>, <<"b", "a", "d", ":", "i", "n", "p", "u", "t">>,
     <<"1", ":">>, <<"x">>}
SongDurationForms ==
    {[title |-> t, duration |-> d] : t \in TextInputs, d \in SongDurationInputs}

\* The request reaches the handler's call of mmss_to_seconds.
converts(path, method) ==
    /\ is_authenticated
    /\ method = "POST"
    /\ path[1] = "songs.edit" => song_exists(path[2])

\* A request to a song form; codec keeps the text its handler handed to
\* mmss_to_seconds and the duration that came back.
ServeSong(path, method, form) ==
    /\ Idle /\ db_file
    /\ dispatch(path, method, form, None, None)
    /\ codec' = IF converts(path, method)
                THEN [mmss |-> form_get(form, "duration"),
                      seconds |-> mmss_to_seconds(form_get(form, "duration"))]
                ELSE codec
    /\ scenario' = NoScenario
    /\ caller' = current_user
    /\ UNCHANGED <<db_file, startup, pending>>

SongsNext ==
    \/ create_app
    \/ \E q \in Requests(LoginForms) :
         Serve(dispatch(<<"auth.login">>, q[1], q[2], None, None))
    \/ \E m \in Methods : Serve(dispatch(<<"songs.index">>, m, NoForm, None, None))
    \/ \E q \in Requests(SongDurationForms) : ServeSong(<<"songs.create">>, q[1], q[2])
    \/ \E id \in RouteIds, q \in Requests(SongDurationForms) :
         ServeSong(<<"songs.edit", id>>, q[1], q[2])
    \/ close_db

SpecSongs == Init /\ [][SongsNext]_vars

\* ------------------------------------------------------------------ associations
\* Removal from a populated store.  The store is one the superuser can have
\* built: the seed artist and album, one song, two genres, and every pair of
\* them in every association table MaxCopies times over (Add keeps
\* duplicates).  The requests are login and the three Removes.
MaxCopies == 2
Copies(pairs) == [p \in pairs |-> MaxCopies]

InitAssociations ==
    /\ artists = seed_artists
    /\ albums = seed_albums
    /\ songs = (1 :> [title |-> <<"a">>, duration |-> None])
    /\ genres = (1 :> [name |-> <<"a">>]) @@ (2 :> [name |-> <<"a">>])
    /\ album_songs = Copies({<<1, 1>>})
    /\ song_genres = Copies({<<1, 1>>, <<1, 2>>})
    /\ album_genres = Copies({<<1, 1>>, <<1, 2>>})
    /\ session = None
    /\ g = None
    /\ scenario = NoScenario
    /\ resp = NoResponse
    /\ db_file = TRUE
    /\ connections = 0
    /\ codec = NoCodec
    /\ caller = None
    /\ startup = Started
    /\ pending = None

AssociationsNext ==
    \/ \E q \in Requests(LoginForms) :
         Serve(dispatch(<<"auth.login">>, q[1], q[2], None, None))
    \/ \E m \in Methods : Serve(dispatch(<<"auth.logout">>, m, NoForm, None, None))
    \/ \E q \in Requests(AlbumSongForms), ref \in Referrers :
         Serve(dispatch(<<"album_songs.remove">>, q[1], q[2], ref, None))
    \/ \E q \in Requests(SongGenreForms), ref \in Referrers :
         Serve(dispatch(<<"song_genres.remove">>, q[1], q[2], ref, None))
    \/ \E q \in Requests(AlbumGenreForms), ref \in Referrers :
         Serve(dispatch(<<"album_genres.remove">>, q[1], q[2], ref, None))
    \/ close_db

SpecAssociations == InitAssociations /\ [][AssociationsNext]_vars

\* ------------------------------------------------------------------ startup
\* _init_db step by step, run by each of the processes started on one
\* db_path.  A process is down, has found no file (checked), has opened the
\* file (connected), has run the CREATE TABLE part of the script (tables), or
\* is up and serving.
pc(p) == startup.pc[p]
goto(p, label) == [startup EXCEPT !.pc[p] = label]
Running == \E p \in Procs : pc(p) = "up"
Initializing(p) == pc(p) \in {"checked", "connected", "tables"}

\* if not os.path.exists(db_path): a process that finds the file goes on to
\* serve, one that finds none goes on to create it.
exists_check_looks_at_tables(p) ==
    /\ pc(p) = "down"
    /\ startup' = goto(p, IF db_file /\ startup.finished > 0 THEN "up" ELSE "checked")
    /\ UNCHANGED <<store, session, g, scenario, resp, db_file, connections, codec, caller,
                   pending>>
exists_check(p) ==
    /\ pc(p) = "down"
    /\ startup' = goto(p, IF db_file THEN "up" ELSE "checked")
    /\ UNCHANGED <<store, session, g, scenario, resp, db_file, connections, codec, caller,
                   pending>>

\* sqlite3.connect(db_path) creates the file when there is none and opens it
\* when there is one; PRAGMA foreign_keys = ON writes nothing.
connect_unless_exists(p) ==
    /\ pc(p) = "checked"
    /\ startup' = goto(p, IF db_file THEN "up" ELSE "connected")
    /\ db_file' = TRUE
    /\ UNCHANGED <<store, session, g, scenario, resp, connections, codec, caller, pending>>
connect(p) ==
    /\ pc(p) = "checked"
    /\ startup' = goto(p, "connected")
    /\ db_file' = TRUE
    /\ UNCHANGED <<store, session, g, scenario, resp, connections, codec, caller, pending>>

\* conn.executescript(f.read()), first part: every CREATE TABLE IF NOT EXISTS;
\* each statement is committed as it runs.
executescript_tables(p) ==
    /\ pc(p) = "connected"
    /\ startup' = [goto(p, "tables") EXCEPT !.tables = TRUE, !.scripts = @ + 1]
    /\ UNCHANGED <<store, session, g, scenario, resp, db_file, connections, codec, caller,
                   pending>>

\* conn.executescript(f.read()), second part: the seed rows.  On tables that
\* another run has seeded the INSERTs either add the rows again or fail on a
\* key, and then _init_db raises and the process does not come up.
executescript_seed(p) ==
    /\ pc(p) = "tables"
    /\ IF startup.finished = 0
       THEN /\ artists' = seed_artists
            /\ albums' = seed_albums
            /\ startup' = [goto(p, "up") EXCEPT !.finished = 1]
       ELSE \/ /\ next_rowid(artists) <= MaxId /\ next_rowid(albums) <= MaxId
               /\ artists' = WithRow(artists, next_rowid(artists), seed_artists[1])
               /\ albums' = WithRow(albums, next_rowid(albums), seed_albums[1])
               /\ startup' = [goto(p, "up") EXCEPT !.finished = @ + 1]
            \/ /\ UNCHANGED <<artists, albums>>
               /\ startup' = goto(p, "down")
    /\ UNCHANGED <<songs, genres, album_songs, song_genres, album_genres>>
    /\ UNCHANGED <<session, g, scenario, resp, db_file, connections, codec, caller, pending>>

\* The process ends: the script raised, the process was killed in the middle
\* of _init_db, or it was shut down between two requests.
stop(p) ==
    /\ pc(p) \in {"connected", "tables"} \/ (pc(p) = "up" /\ Idle)
    /\ startup' = goto(p, "down")
    /\ UNCHANGED <<store, session, g, scenario, resp, db_file, connections, codec, caller,
                   pending>>

\* home.index on a file that has no tables: the first SELECT COUNT(*) raises
\* sqlite3.OperationalError, which nothing catches.
home_index_without_tables ==
    login_required("home.index", <<"home.index">>,
        NoCommit /\ ReplyDb(InternalServerError("home.index")))

StartupNext ==
    \/ \E p \in Procs : exists_check(p)
    \/ \E p \in Procs : connect(p)
    \/ \E p \in Procs : executescript_tables(p)
    \/ \E p \in Procs : executescript_seed(p)
    \/ \E p \in Procs : stop(p)
    \/ \E q \in Requests(LoginForms) :
         Running /\ Serve(dispatch(<<"auth.login">>, q[1], q[2], None, None))
    \/ \E m \in Methods :
         /\ Running
         /\ IF startup.tables
            THEN Serve(dispatch(<<"home.index">>, m, NoForm, None, None))
            ELSE Serve(home_index_without_tables)
    \/ Running /\ close_db

SpecStartup == Init /\ [][StartupNext]_vars

\* ------------------------------------------------------------------ interleaved edit
\* A second worker (the server handles requests in threads) answering the
\* POST of an Edit: its SELECT, its UPDATE and its teardown are three steps,
\* and the first worker serves whole requests in between.  Only a POST that
\* gets as far as the UPDATE is split: a request answered after the SELECT
\* alone (row not found, required field blank, GET) is the handler's whole
\* run.  Each worker has a connection of its own.
InFlight(route, id, form) == Some([route |-> route, id |-> id, form |-> form, resp |-> NoResponse])
Answered(r) == Some([pending[1] EXCEPT !.resp = r])

\* The forms of an Edit endpoint whose required fields are filled in.
CompleteForms(endpoint) ==
    CASE endpoint = "artists.edit" ->
            {f \in ArtistForms \ {NoForm} : ~is_missing(strip(f.name))}
      [] endpoint = "albums.edit" ->
            {f \in AlbumForms \ {NoForm} :
                ~is_missing(strip(f.title)) /\ ~is_missing(strip(f.artist_id))}
      [] endpoint = "songs.edit" ->
            {f \in SongForms \ {NoForm} : ~is_missing(strip(f.title))}
      [] endpoint = "genres.edit" ->
            {f \in GenreForms \ {NoForm} : ~is_missing(strip(f.name))}

\* The handler's SELECT ... WHERE id = ? finds the row and the form passes
\* the required-field test.
edit_select(endpoint, id, form) ==
    /\ pending = None /\ db_file
    /\ is_authenticated
    /\ CASE endpoint = "artists.edit" -> artist_exists(id)
         [] endpoint = "albums.edit" -> album_exists(id)
         [] endpoint = "songs.edit" -> song_exists(id)
         [] endpoint = "genres.edit" -> genre_exists(id)
    /\ form \in CompleteForms(endpoint)
    /\ pending' = InFlight(endpoint, id, form)
    /\ connections' = connections + 1
    /\ UNCHANGED <<store, session, g, scenario, resp, db_file, codec, caller, startup>>

\* The handler's try block: UPDATE ... WHERE id = ?, commit, flash, redirect;
\* except Exception: flash the error and show the form again.
edit_update ==
    /\ pending # None /\ pending[1].resp = NoResponse
    /\ LET endpoint == pending[1].route
           id == pending[1].id
           form == pending[1].form
       IN  CASE endpoint = "artists.edit" ->
                  LET r == update_artist(get_db, strip(form.name),
                                         or_None(strip(form.bio)), id)
                  IN  /\ CommitArtists(r.rows)
                      /\ pending' = Answered(redirect("artists.edit", <<"artists.index">>,
                                                      flash("Artist updated.", "success")))
             [] endpoint = "albums.edit" ->
                  LET artist_id == strip(form.artist_id)
                      r == update_album(get_db, strip(form.title), int(artist_id),
                                        or_None(strip(form.release_year)), id)
                  IN  IF int_raises(artist_id)
                      THEN /\ NoCommit
                           /\ pending' = Answered(render_template("albums.edit",
                                  "albums/form.html", flash(error_message(ValueError), "danger")))
                      ELSE IF r.error = NoError
                      THEN /\ CommitAlbums(r.rows)
                           /\ pending' = Answered(redirect("albums.edit", <<"albums.index">>,
                                                           flash("Album updated.", "success")))
                      ELSE /\ NoCommit
                           /\ pending' = Answered(render_template("albums.edit",
                                  "albums/form.html", flash(error_message(r.error), "danger")))
             [] endpoint = "songs.edit" ->
                  LET r == update_song(get_db, strip(form.title),
                                       mmss_to_seconds(form.duration), id)
                  IN  /\ CommitSongs(r.rows)
                      /\ pending' = Answered(redirect("songs.edit", <<"songs.index">>,
                                                      flash("Song updated.", "success")))
             [] endpoint = "genres.edit" ->
                  LET r == update_genre(get_db, strip(form.name), id)
                  IN  /\ CommitGenres(r.rows)
                      /\ pending' = Answered(redirect("genres.edit", <<"genres.index">>,
                                                      flash("Genre updated.", "success")))
    /\ UNCHANGED <<session, g, scenario, resp, db_file, connections, codec, caller, startup>>

\* The second worker's response is sent and its teardown closes its connection.
edit_teardown ==
    /\ pending # None /\ pending[1].resp # NoResponse
    /\ pending' = None
    /\ connections' = connections - 1
    /\ UNCHANGED <<store, session, g, scenario, resp, db_file, codec, caller, startup>>

InterleavedNext ==
    \/ create_app
    \/ \E q \in Requests(LoginForms) :
         Serve(dispatch(<<"auth.login">>, q[1], q[2], None, None))
    \/ \E q \in Requests(SongForms) : Serve(dispatch(<<"songs.create">>, q[1], q[2], None, None))
    \/ \E q \in Requests(GenreForms) : Serve(dispatch(<<"genres.create">>, q[1], q[2], None, None))
    \/ \E id \in RouteIds, q \in Requests(ArtistForms) :
         Serve(dispatch(<<"artists.edit", id>>, q[1], q[2], None, None))
    \/ \E id \in RouteIds, q \in Requests(AlbumForms) :
         Serve(dispatch(<<"albums.edit", id>>, q[1], q[2], None, None))
    \/ \E id \in RouteIds, q \in Requests(SongForms) :
         Serve(dispatch(<<"songs.edit", id>>, q[1], q[2], None, None))
    \/ \E id \in RouteIds, q \in Requests(GenreForms) :
         Serve(dispatch(<<"genres.edit", id>>, q[1], q[2], None, None))
    \/ \E e \in DeleteEndpoints, id \in RouteIds, m \in Methods :
         Serve(dispatch(<<e, id>>, m, NoForm, None, None))
    \/ close_db
    \/ \E e \in EditEndpoints, id \in RouteIds :
         \E form \in CompleteForms(e) : edit_select(e, id, form)
    \/ edit_update
    \/ edit_teardown

SpecInterleaved == Init /\ [][InterleavedNext]_vars

\* ------------------------------------------------------------------ properties
IsGuestSession == session = Some(guest)
Refused == "Cannot delete: FOREIGN KEY constraint failed"
SuperuserOnly == "Only the superuser (sandro63) can delete records."

C2_DeleteReferencedFails ==
    [][IsSuperuserSession /\ Idle =>
        \A id \in RouteIds, referrer \in Referrers :
          /\ (resp'.route = "artists.delete" /\ artist_is_referenced(id)
                /\ dispatch(<<"artists.delete", id>>, "POST", NoForm, referrer, None))
             => /\ UNCHANGED store
                /\ artist_exists(id)
                /\ resp' = redirect("artists.delete", <<"artists.index">>, <<"danger", Refused>>)
          /\ (resp'.route = "albums.delete" /\ album_is_referenced(id)
                /\ dispatch(<<"albums.delete", id>>, "POST", NoForm, referrer, None))
             => /\ UNCHANGED store
                /\ album_exists(id)
                /\ resp' = redirect("albums.delete", <<"albums.index">>, <<"danger", Refused>>)
          /\ (resp'.route = "songs.delete" /\ song_is_referenced(id)
                /\ dispatch(<<"songs.delete", id>>, "POST", NoForm, referrer, None))
             => /\ UNCHANGED store
                /\ song_exists(id)
                /\ resp' = redirect("songs.delete", <<"songs.index">>, <<"danger", Refused>>)
          /\ (resp'.route = "genres.delete" /\ genre_is_referenced(id)
                /\ dispatch(<<"genres.delete", id>>, "POST", NoForm, referrer, None))
             => /\ UNCHANGED store
                /\ genre_exists(id)
                /\ resp' = redirect("genres.delete", <<"genres.index">>, <<"danger", Refused>>)
    ]_vars

\* The superuser's delete of an artist that still has an album was refused.
C2_Witness ==
    /\ IsSuperuserSession
    /\ resp = redirect("artists.delete", <<"artists.index">>, <<"danger", Refused>>)
    /\ \E a \in DOMAIN albums : albums[a].artist_id \in DOMAIN artists

\* C3: a delete or remove request of an authenticated principal who is not the
\* superuser changes no table, opens no connection (the view body does not
\* run) and is answered by a redirect to the referrer, or to the home page
\* when there is none, carrying the superuser-only message.
AsRefused(endpoint, referrer) ==
    /\ UNCHANGED <<store, session>>
    /\ g' = None
    /\ resp' = redirect(endpoint,
                        IF referrer = None THEN <<"home.index">> ELSE referrer[1],
                        <<"danger", SuperuserOnly>>)

C3_NonSuperuserRefused ==
    [][IsGuestSession /\ Idle =>
        \A referrer \in Referrers :
          /\ \A e \in DeleteEndpoints :
                resp'.route = e =>
                  \A id \in RouteIds :
                    dispatch(<<e, id>>, "POST", NoForm, referrer, None)
                    => AsRefused(e, referrer)
          /\ resp'.route = "album_songs.remove" =>
                \A form \in AlbumSongForms :
                  dispatch(<<"album_songs.remove">>, "POST", form, referrer, None)
                  => AsRefused("album_songs.remove", referrer)
          /\ resp'.route = "song_genres.remove" =>
                \A form \in SongGenreForms :
                  dispatch(<<"song_genres.remove">>, "POST", form, referrer, None)
                  => AsRefused("song_genres.remove", referrer)
          /\ resp'.route = "album_genres.remove" =>
                \A form \in AlbumGenreForms :
                  dispatch(<<"album_genres.remove">>, "POST", form, referrer, None)
                  => AsRefused("album_genres.remove", referrer)
    ]_vars

\* The guest asked to remove an association that exists and was sent back.
C3_Witness ==
    /\ IsGuestSession
    /\ resp.route = "album_songs.remove"
    /\ resp.message = SuperuserOnly
    /\ album_songs # EmptyBag
    /\ g = None

\* C4: the superuser's delete of a stored row that no dependent row refers to
\* leaves the table without that id, and the superuser's remove of a stored
\* pair leaves the junction table without any row of that pair; the change is
\* in the stored tables, which every later request reads.
C4_DeleteSucceeds ==
    [][IsSuperuserSession /\ Idle =>
        /\ \A id \in RouteIds, referrer \in Referrers :
            /\ (resp'.route = "artists.delete" /\ artist_exists(id) /\ ~artist_is_referenced(id)
                  /\ dispatch(<<"artists.delete", id>>, "POST", NoForm, referrer, None))
               => id \notin DOMAIN artists' /\ resp'.message = "Artist deleted."
            /\ (resp'.route = "albums.delete" /\ album_exists(id) /\ ~album_is_referenced(id)
                  /\ dispatch(<<"albums.delete", id>>, "POST", NoForm, referrer, None))
               => id \notin DOMAIN albums' /\ resp'.message = "Album deleted."
            /\ (resp'.route = "songs.delete" /\ song_exists(id) /\ ~song_is_referenced(id)
                  /\ dispatch(<<"songs.delete", id>>, "POST", NoForm, referrer, None))
               => id \notin DOMAIN songs' /\ resp'.message = "Song deleted."
            /\ (resp'.route = "genres.delete" /\ genre_exists(id) /\ ~genre_is_referenced(id)
                  /\ dispatch(<<"genres.delete", id>>, "POST", NoForm, referrer, None))
               => id \notin DOMAIN genres' /\ resp'.message = "Genre deleted."
        /\ \A a, b \in RouteIds, referrer \in Referrers :
            /\ (resp'.route = "album_songs.remove" /\ <<a, b>> \in DOMAIN album_songs
                  /\ dispatch(<<"album_songs.remove">>, "POST",
                              [album_id |-> str(a), song_id |-> str(b)], referrer, None))
               => /\ <<a, b>> \notin DOMAIN album_songs'
                  /\ resp'.message = "Association removed."
            /\ (resp'.route = "song_genres.remove" /\ <<a, b>> \in DOMAIN song_genres
                  /\ dispatch(<<"song_genres.remove">>, "POST",
                              [song_id |-> str(a), genre_id |-> str(b)], referrer, None))
               => /\ <<a, b>> \notin DOMAIN song_genres'
                  /\ resp'.message = "Association removed."
            /\ (resp'.route = "album_genres.remove" /\ <<a, b>> \in DOMAIN album_genres
                  /\ dispatch(<<"album_genres.remove">>, "POST",
                              [album_id |-> str(a), genre_id |-> str(b)], referrer, None))
               => /\ <<a, b>> \notin DOMAIN album_genres'
                  /\ resp'.message = "Association removed."
    ]_vars

\* The superuser's delete of a genre went through and the genre is gone.
C4_Witness ==
    /\ IsSuperuserSession
    /\ resp.route = "genres.delete"
    /\ resp.message = "Genre deleted."
    /\ genres = <<>>

\* C5: a create-album request with a non-empty title and an artist_id that is
\* a number but not the id of a stored artist changes no table and
\* re-presents the form with the foreign-key error as its message.
C5_CreateAlbumDangling ==
    [][is_authenticated /\ Idle /\ resp'.route = "albums.create" =>
        \A form \in AlbumForms \ {NoForm} :
          (/\ strip(form.title) # <<>>
           /\ ~int_raises(form.artist_id)
           /\ int(form.artist_id) \notin DOMAIN artists
           /\ dispatch(<<"albums.create">>, "POST", form, None, None))
          => /\ UNCHANGED store
             /\ resp' = render_template("albums.create", "albums/form.html",
                                        <<"danger", "Error: FOREIGN KEY constraint failed">>)
    ]_vars

\* A create-album request naming an artist that is not stored was turned down.
C5_Witness ==
    /\ resp.route = "albums.create"
    /\ resp.message = "Error: FOREIGN KEY constraint failed"
    /\ \E id \in RouteIds : id \notin DOMAIN artists

\* C6: in the walk-through, the first delete of A is refused and leaves A and
\* B stored with B still owned by A; the delete of B then succeeds and B is
\* gone; the delete of A after that succeeds and A is gone.
C6_EndToEnd ==
    /\ scenario.phase = 3 =>
         /\ scenario.A \in DOMAIN artists
         /\ scenario.B \in DOMAIN albums
         /\ albums[scenario.B].artist_id = scenario.A
         /\ resp # NoResponse => resp.message = Refused
    /\ scenario.phase = 4 =>
         /\ scenario.A \in DOMAIN artists
         /\ scenario.B \notin DOMAIN albums
         /\ resp # NoResponse => resp.message = "Album deleted."
    /\ scenario.phase = 5 =>
         /\ scenario.A \notin DOMAIN artists
         /\ resp # NoResponse => resp.message = "Artist deleted."

\* The walk-through has reached its end: the second delete of A was answered.
C6_Witness ==
    /\ scenario.phase = 5
    /\ resp.route = "artists.delete"
    /\ resp.message = "Artist deleted."

\* Every endpoint behind @login_required, those of them whose route accepts
\* GET, and the paths of an endpoint.
ProtectedEndpoints ==
    ListEndpoints \cup CreateEndpoints \cup EditEndpoints \cup DeleteEndpoints
    \cup AddEndpoints \cup RemoveEndpoints
GetEndpoints == {e \in ProtectedEndpoints : "GET" \in methods(e)}
paths(endpoint) ==
    IF endpoint \in EditEndpoints \cup DeleteEndpoints
    THEN {<<endpoint, id>> : id \in RouteIds}
    ELSE {<<endpoint>>}
\* The forms a request to `endpoint` may carry.
forms(endpoint) ==
    CASE endpoint \in {"artists.create", "artists.edit"} -> ArtistForms
      [] endpoint \in {"albums.create", "albums.edit"} -> AlbumForms
      [] endpoint \in {"songs.create", "songs.edit"} -> SongForms
      [] endpoint \in {"genres.create", "genres.edit"} -> GenreForms
      [] endpoint \in {"album_songs.add", "album_songs.remove"} -> AlbumSongForms
      [] endpoint \in {"song_genres.add", "song_genres.remove"} -> SongGenreForms
      [] endpoint \in {"album_genres.add", "album_genres.remove"} -> AlbumGenreForms
      [] OTHER -> {NoForm}
\* The Referer headers it may carry: only delete and remove look at it.
referrers(endpoint) ==
    IF endpoint \in DeleteEndpoints \cup RemoveEndpoints THEN Referrers ELSE {None}
PleaseSignIn == "Please sign in to access this page."

\* A step made by dispatch(path, ...) has resp'.route = path[1]: the
\* properties below look only at the requests of the endpoint that answered.

\* An unauthenticated request to a protected path is sent to the login page
\* with the path as `next`; nothing is stored, nobody is signed in.
C7_Redirected ==
    ~is_authenticated /\ Idle /\ resp'.route \in ProtectedEndpoints =>
      \A path \in paths(resp'.route), m \in methods(resp'.route),
         form \in forms(resp'.route), referrer \in referrers(resp'.route) :
        dispatch(path, m, form, referrer, None)
        => /\ UNCHANGED <<store, session>>
           /\ resp' = Response(path[1], "redirect", <<"auth.login">>, Some(path),
                               "warning", PleaseSignIn)

\* A login with a pair of the user store and next = a path signs the caller in
\* and redirects to that path.
C7_SentOn ==
    ~is_authenticated /\ Idle /\ resp'.route = "auth.login" =>
      \A username \in DOMAIN USERS, next \in NextArgs \ {None} :
        dispatch(<<"auth.login">>, "POST",
                 [username |-> username, password |-> USERS[username]], None, next)
        => /\ UNCHANGED store
           /\ session' = Some(username)
           /\ resp' = redirect("auth.login", next[1], NoFlash)

\* The browser follows that redirect with a GET: the view of the path answers
\* it, not the router's 405 and not the login gate.
C7_Resumed(endpoints) ==
    is_authenticated /\ Idle /\ resp'.route \in endpoints =>
      \A path \in paths(resp'.route) :
        dispatch(path, "GET", NoForm, None, None)
        => resp'.status # "405" /\ resp'.message # PleaseSignIn

\* C7 (as amended): an unauthenticated request to any protected route is
\* redirected to login with the requested path preserved and no change to the
\* store; a successful login carrying that path redirects the caller to it;
\* and the GET that follows the redirect is answered by the route's view for
\* every protected route that accepts GET.
C7_DestinationPreserved ==
    [][/\ C7_Redirected
       /\ C7_SentOn
       /\ C7_Resumed(GetEndpoints)]_vars

\* C7 (as stated): the same, with the operation resumed after login for every
\* protected route, the delete, add and remove routes included.
C7_AsStated ==
    [][C7_Redirected /\ C7_SentOn /\ C7_Resumed(ProtectedEndpoints)]_vars

\* A caller who was sent to login from the genre listing has signed in and is
\* being redirected to the genre listing.
C7_Witness ==
    /\ session # None
    /\ resp = redirect("auth.login", <<"genres.index">>, NoFlash)

\* The outcome of a login POST, given the identity the credential check uses.
C8_Outcome(identity, secret) ==
    IF identity \in DOMAIN USERS /\ USERS[identity] = secret
    THEN session' = Some(identity) /\ resp'.status = "redirect"
    ELSE /\ session' = None
         /\ resp' = render_template("auth.login", "auth/login.html",
                                    <<"danger", "Invalid username or password.">>)

\* C8 (as amended): a login POST from an unauthenticated session signs the
\* caller in as the submitted identity with surrounding whitespace removed
\* if and only if that trimmed identity and the secret exactly as submitted
\* are a pair of the user store; otherwise the login page is shown again with
\* the invalid-credentials message and the session stays unauthenticated.
C8_AuthenticateTrimmed ==
    [][~is_authenticated /\ Idle /\ resp'.route = "auth.login" =>
        \A form \in LoginForms, next \in NextArgs :
          dispatch(<<"auth.login">>, "POST", form, None, next)
          => /\ UNCHANGED store
             /\ C8_Outcome(strip(form_get(form, "username")), form_get(form, "password"))
    ]_vars

\* C8 (as stated): the caller is signed in if and only if the identity and
\* the secret as submitted are a pair of the user store.
C8_AsStated ==
    [][~is_authenticated /\ Idle /\ resp'.route = "auth.login" =>
        \A form \in LoginForms, next \in NextArgs :
          dispatch(<<"auth.login">>, "POST", form, None, next)
          => /\ UNCHANGED store
             /\ C8_Outcome(form_get(form, "username"), form_get(form, "password"))
    ]_vars

\* The guest has just signed in.
C8_Witness ==
    /\ IsGuestSession
    /\ resp.route = "auth.login"
    /\ resp.status = "redirect"

Blank(form, key) == strip(form_get(form, key)) = <<>>
Rejected(message) ==
    /\ UNCHANGED store
    /\ resp'.category = "danger"
    /\ resp'.message = message

\* Create and Add with a blank required field.
C9_CreateAndAdd ==
    /\ resp'.route = "artists.create" =>
       \A form \in ArtistForms :
         (Blank(form, "name")
           /\ dispatch(<<"artists.create">>, "POST", form, None, None))
         => Rejected("Artist name is required.")
    /\ resp'.route = "albums.create" =>
       \A form \in AlbumForms :
         ((Blank(form, "title") \/ Blank(form, "artist_id"))
            /\ dispatch(<<"albums.create">>, "POST", form, None, None))
         => Rejected("Title and artist are required.")
    /\ resp'.route = "songs.create" =>
       \A form \in SongForms :
         (Blank(form, "title")
           /\ dispatch(<<"songs.create">>, "POST", form, None, None))
         => Rejected("Song title is required.")
    /\ resp'.route = "genres.create" =>
       \A form \in GenreForms :
         (Blank(form, "name")
           /\ dispatch(<<"genres.create">>, "POST", form, None, None))
         => Rejected("Genre name is required.")
    /\ resp'.route = "album_songs.add" =>
       \A form \in AlbumSongForms :
         ((Blank(form, "album_id") \/ Blank(form, "song_id"))
            /\ dispatch(<<"album_songs.add">>, "POST", form, None, None))
         => Rejected("Both album and song are required.")
    /\ resp'.route = "song_genres.add" =>
       \A form \in SongGenreForms :
         ((Blank(form, "song_id") \/ Blank(form, "genre_id"))
            /\ dispatch(<<"song_genres.add">>, "POST", form, None, None))
         => Rejected("Both song and genre are required.")
    /\ resp'.route = "album_genres.add" =>
       \A form \in AlbumGenreForms :
         ((Blank(form, "album_id") \/ Blank(form, "genre_id"))
            /\ dispatch(<<"album_genres.add">>, "POST", form, None, None))
         => Rejected("Both album and genre are required.")

\* Edit with a blank required field: the validation message when a row has
\* the id, `absent(not-found message, validation message)` when none has.
C9_Edit(ids, absent(_, _)) ==
    \A id \in ids :
      /\ resp'.route = "artists.edit" =>
         \A form \in ArtistForms :
           (Blank(form, "name")
           /\ dispatch(<<"artists.edit", id>>, "POST", form, None, None))
           => Rejected(IF artist_exists(id) THEN "Artist name is required."
                       ELSE absent("Artist not found.", "Artist name is required."))
      /\ resp'.route = "albums.edit" =>
         \A form \in AlbumForms :
           ((Blank(form, "title") \/ Blank(form, "artist_id"))
              /\ dispatch(<<"albums.edit", id>>, "POST", form, None, None))
           => Rejected(IF album_exists(id) THEN "Title and artist are required."
                       ELSE absent("Album not found.", "Title and artist are required."))
      /\ resp'.route = "songs.edit" =>
         \A form \in SongForms :
           (Blank(form, "title")
           /\ dispatch(<<"songs.edit", id>>, "POST", form, None, None))
           => Rejected(IF song_exists(id) THEN "Song title is required."
                       ELSE absent("Song not found.", "Song title is required."))
      /\ resp'.route = "genres.edit" =>
         \A form \in GenreForms :
           (Blank(form, "name")
           /\ dispatch(<<"genres.edit", id>>, "POST", form, None, None))
           => Rejected(IF genre_exists(id) THEN "Genre name is required."
                       ELSE absent("Genre not found.", "Genre name is required."))

NotFoundFirst(not_found, required) == not_found
ValidationAlways(not_found, required) == required

\* C9 (as amended): a Create, an Edit or an Add of an authenticated caller
\* whose required field is blank after trimming changes no table; its outcome
\* is the validation message, except that an Edit of an id no row has is
\* answered before the form is read: with the not-found message, or with an
\* uncaught error when the id is past what sqlite3 can bind.
C9_InvalidInputNoMutation ==
    [][is_authenticated /\ Idle
        => /\ C9_CreateAndAdd
           /\ C9_Edit(RouteIds, NotFoundFirst)
           /\ resp'.route \in EditEndpoints /\ resp'.status = "500" => UNCHANGED store]_vars

\* C9 (as stated): the outcome of every such Create, Edit and Add is the
\* validation message.
C9_AsStated ==
    [][is_authenticated /\ Idle => C9_CreateAndAdd /\ C9_Edit(RouteIds, ValidationAlways)]_vars

\* An edit of a stored album with a blank field was turned down.
C9_Witness ==
    /\ resp.route = "albums.edit"
    /\ resp.message = "Title and artist are required."
    /\ DOMAIN albums # {}

\* C10: in every reachable state every artist and genre has a non-empty
\* name, every song and album a non-empty title, and every album an artist_id
\* that is a number.
C10_RequiredFieldsPresent ==
    /\ \A a \in DOMAIN artists : artists[a].name # <<>>
    /\ \A b \in DOMAIN albums : albums[b].title # <<>> /\ albums[b].artist_id \in Int
    /\ \A c \in DOMAIN songs : songs[c].title # <<>>
    /\ \A d \in DOMAIN genres : genres[d].name # <<>>

\* A song typed with padding around its title has just been stored.
C10_Witness ==
    /\ resp.route = "songs.create"
    /\ resp.message = "Song created."
    /\ \E c \in DOMAIN songs : songs[c].title = <<"a">>

\* C11: every duration the store holds is absent or a non-negative number of
\* seconds, whatever duration text Create and Edit were given.
C11_DurationNonNegative ==
    \A id \in DOMAIN songs :
        songs[id].duration = None \/ songs[id].duration[1] >= 0

\* C12: the text seconds_to_mmss renders for a duration of n >= 0 seconds is
\* turned back into n by mmss_to_seconds (225 -> "3:45" -> 225), and the text
\* rendered for no duration is turned back into no duration.
C12_RoundTrip ==
    [][to_display /\ codec.seconds \in Seconds
        => mmss_to_seconds(codec'.mmss) = codec.seconds]_vars

C12_Witness ==
    /\ codec.seconds = Some(225)
    /\ codec.mmss = <<"3", ":", "4", "5">>
    /\ mmss_to_seconds(codec.mmss) = Some(225)

\* Duration texts that are not a number of seconds nor minutes ":" seconds.
MalformedDurations ==
    {<<" ">>, <<"b", "a", "d", ":", "i", "n", "p", "u", "t">>, <<"1", ":">>, <<"x">>}
SongFormWith(d) == [title |-> <<" ", "a", " ">>, duration |-> d]

\* C13: mmss_to_seconds answers "no duration" for an empty text and for every
\* malformed one, and a song Create or Edit that carries such a text succeeds
\* and stores the song with no duration.
C13_MalformedMeansAbsent ==
    [][(Idle /\ is_authenticated /\ resp'.route \in {"songs.create", "songs.edit"})
        => \A d \in MalformedDurations \cup {<<>>} :
             /\ mmss_to_seconds(d) = None
             /\ dispatch(<<"songs.create">>, "POST", SongFormWith(d), None, None)
                  => /\ resp'.message = "Song created."
                     /\ DOMAIN songs' = DOMAIN songs \cup {next_rowid(songs)}
                     /\ songs'[next_rowid(songs)].duration = None
             /\ \A id \in DOMAIN songs :
                  dispatch(<<"songs.edit", id>>, "POST", SongFormWith(d), None, None)
                  => /\ resp'.message = "Song updated."
                     /\ songs'[id].duration = None]_vars

C13_Witness ==
    /\ codec.mmss \in MalformedDurations
    /\ codec.seconds = None
    /\ resp.route = "songs.edit"
    /\ resp.message = "Song updated."
    /\ \E id \in DOMAIN songs : songs[id].duration = None

\* The text t is minutes ":" seconds for n: the two last characters are the
\* digits of n mod 60, before them a colon, before it the decimal digits of
\* floor(n / 60) with no leading zero.
IsMinutesSeconds(t, n) ==
    LET k == Len(t)
        m == SubSeq(t, 1, k - 3)
    IN  /\ k >= 4
        /\ t[k - 2] = ":"
        /\ t[k - 1] \in Digits /\ t[k] \in Digits
        /\ DigitVal[t[k - 1]] * 10 + DigitVal[t[k]] = n % 60
        /\ \A i \in 1..Len(m) : m[i] \in Digits
        /\ Len(m) > 1 => m[1] # "0"
        /\ DigitsValue(m) * 60 + (n % 60) = n

\* C14: seconds_to_mmss renders no duration as the empty text and n >= 0
\* seconds as floor(n / 60), a colon, and n mod 60 in exactly two digits
\* (225 as "3:45", 5 as "0:05").
C14_DisplayFormat ==
    [][to_display /\ codec.seconds \in Seconds
        => /\ codec.seconds = None => codec'.mmss = <<>>
           /\ codec.seconds # None => IsMinutesSeconds(codec'.mmss, codec.seconds[1])
           /\ codec.seconds = Some(225) => codec'.mmss = <<"3", ":", "4", "5">>
           /\ codec.seconds = Some(5) => codec'.mmss = <<"0", ":", "0", "5">>]_vars

C14_Witness ==
    /\ codec.seconds = Some(5)
    /\ codec.mmss = <<"0", ":", "0", "5">>

\* C15: a start of the application that finds the database file changes no
\* table, whatever the requests since the first start have stored; the first
\* start leaves the file in place, so a second start in a row changes nothing.
C15_InitIdempotent ==
    [][create_app
        => /\ db_file'
           /\ db_file => UNCHANGED store
           /\ ~db_file => artists' = seed_artists /\ albums' = seed_albums]_vars

C15_Witness ==
    /\ db_file /\ Idle
    /\ artists # seed_artists
    /\ songs # <<>>

\* C16: within a request every get_db call after the first returns the
\* connection the first one opened and opens nothing; the first call opens
\* one connection with foreign-key enforcement on.  So at most one connection
\* is open at any moment, and the connection a handler's statements run on
\* has enforcement on.
C16_OneConnectionPerRequest ==
    [][/\ connections' <= 1
       /\ g' # None => g'[1].foreign_keys /\ connections' = 1
       /\ call_get_db /\ g = None
            => g' = Some([foreign_keys |-> TRUE]) /\ connections' = connections + 1
       /\ call_get_db /\ g # None
            => g' = g /\ connections' = connections]_vars

C16_Witness ==
    /\ resp = InProgress
    /\ g # None
    /\ connections = 1

\* C17: the step that ends a request, whatever the response was (success,
\* validation failure, not found, refusal, caught or uncaught error), leaves
\* no connection open and none registered in g, also when the request never
\* opened one.
C17_ReleasedAtTeardown ==
    [][resp # NoResponse /\ resp' = NoResponse
        => g' = None /\ connections' = 0]_vars

C17_Witness ==
    /\ resp.status = "500"
    /\ g # None
    /\ connections = 1

\* C18: every request that reaches a handler, whatever its input and the
\* store, is answered with a redirect or a rendered page; no handler lets an
\* error out.
C18_EveryFailureRecovered ==
    [][Idle /\ resp' # NoResponse /\ resp'.status # "405"
        => resp'.status \in {"redirect", "render"}]_vars

\* The answer of a Remove that raised nothing.
Removed(endpoint, index) == redirect(endpoint, <<index>>, flash("Association removed.", "success"))

\* C19: the superuser's Remove of a pair of ids answers "Association removed."
\* whether or not a row matched; with no matching row it changes no table;
\* and in the store it leaves, removing the same pair again would change
\* nothing.  (The Referer header plays no part in a superuser's request.)
C19_RemoveIdempotent ==
    [][IsSuperuserSession /\ Idle =>
        \A a, b \in RouteIds :
            /\ (resp'.route = "album_songs.remove"
                  /\ dispatch(<<"album_songs.remove">>, "POST",
                              [album_id |-> str(a), song_id |-> str(b)], None, None))
               => /\ resp' = Removed("album_songs.remove", "album_songs.index")
                  /\ <<a, b>> \notin DOMAIN album_songs => UNCHANGED store
                  /\ (delete_album_song(get_db, a, b).rows)' = album_songs'
            /\ (resp'.route = "song_genres.remove"
                  /\ dispatch(<<"song_genres.remove">>, "POST",
                              [song_id |-> str(a), genre_id |-> str(b)], None, None))
               => /\ resp' = Removed("song_genres.remove", "song_genres.index")
                  /\ <<a, b>> \notin DOMAIN song_genres => UNCHANGED store
                  /\ (delete_song_genre(get_db, a, b).rows)' = song_genres'
            /\ (resp'.route = "album_genres.remove"
                  /\ dispatch(<<"album_genres.remove">>, "POST",
                              [album_id |-> str(a), genre_id |-> str(b)], None, None))
               => /\ resp' = Removed("album_genres.remove", "album_genres.index")
                  /\ <<a, b>> \notin DOMAIN album_genres => UNCHANGED store
                  /\ (delete_album_genre(get_db, a, b).rows)' = album_genres']_vars

\* A Remove on song_genres answered while no song is stored: no pair can have
\* matched, since a pair needs its song and Remove deletes no song.
C19_Witness ==
    /\ IsSuperuserSession
    /\ resp = Removed("song_genres.remove", "song_genres.index")
    /\ songs = <<>>
    /\ genres # <<>>

\* C20: on the Delete and Remove routes an unauthenticated caller is answered
\* by the login gate alone (redirect to the login page, nothing stored), never
\* by the superuser gate: neither its refusal nor the error its test raises
\* on an anonymous user; the superuser-only refusal is only ever given to a
\* signed-in user.
C20_SuperuserGateAfterLogin ==
    [][(Idle /\ resp'.route \in DeleteEndpoints \cup RemoveEndpoints
             /\ resp'.status # "405")
        => /\ ~is_authenticated
                => /\ resp'.status = "redirect"
                   /\ resp'.target = <<"auth.login">>
                   /\ resp'.message = PleaseSignIn
                   /\ UNCHANGED <<store, session, g>>
           /\ resp'.message = SuperuserOnly => is_authenticated
           /\ resp'.status = "500" => is_authenticated]_vars

C20_Witness ==
    /\ session = None
    /\ resp.route \in RemoveEndpoints
    /\ resp.target = <<"auth.login">>
    /\ resp.message = PleaseSignIn

\* The table an Edit or Delete endpoint works on has a row with the id; the
\* message and the listing it answers with when none has.
row_exists(endpoint, id) ==
    CASE endpoint \in {"artists.edit", "artists.delete"} -> artist_exists(id)
      [] endpoint \in {"albums.edit", "albums.delete"} -> album_exists(id)
      [] endpoint \in {"songs.edit", "songs.delete"} -> song_exists(id)
      [] endpoint \in {"genres.edit", "genres.delete"} -> genre_exists(id)
NotFound(endpoint) ==
    CASE endpoint \in {"artists.edit", "artists.delete"} ->
            redirect(endpoint, <<"artists.index">>, flash("Artist not found.", "danger"))
      [] endpoint \in {"albums.edit", "albums.delete"} ->
            redirect(endpoint, <<"albums.index">>, flash("Album not found.", "danger"))
      [] endpoint \in {"songs.edit", "songs.delete"} ->
            redirect(endpoint, <<"songs.index">>, flash("Song not found.", "danger"))
      [] endpoint \in {"genres.edit", "genres.delete"} ->
            redirect(endpoint, <<"genres.index">>, flash("Genre not found.", "danger"))

\* An Edit of an authenticated caller, or a Delete of the superuser, on an id
\* of `ids` that no row of the table has: whatever the method and the form,
\* the answer is the not-found redirect to the listing and no table changes.
C21_Absent(ids) ==
    (/\ Idle /\ is_authenticated
     /\ resp'.route \in EditEndpoints \cup DeleteEndpoints
     /\ resp'.route \in DeleteEndpoints => IsSuperuserSession)
    => \A id \in ids, m \in methods(resp'.route), form \in forms(resp'.route) :
         (~row_exists(resp'.route, id)
            /\ dispatch(<<resp'.route, id>>, m, form, None, None))
         => resp' = NotFound(resp'.route) /\ UNCHANGED store

\* C21: Edit and Delete on an id for which the entity's table has no row
\* report not-found, redirect to the entity's listing and change no table,
\* whatever the submitted fields are; the ids are all those a URL can carry.
C21_AbsentIdNotFound == [][C21_Absent(UrlIds)]_vars

\* The same for the ids sqlite3 can bind: every such Edit and Delete is
\* answered with the not-found redirect.
AbsentIdNotFoundInRange == [][C21_Absent(RouteIds)]_vars

ForeignKeyFailed == flash("Error: FOREIGN KEY constraint failed", "danger")

\* C22: an Edit of a stored album whose form names, as a number, an artist
\* that is not stored, and an Add on any of the three associations whose form
\* names, as numbers, a pair with an endpoint that is not stored, end in the
\* foreign-key error: no table changes, the album form is shown again
\* (respectively the association's listing is redirected to) with that error.
C22_DanglingRejected ==
    [][is_authenticated /\ Idle =>
        /\ resp'.route = "albums.edit" =>
           \A id \in RouteIds, form \in AlbumForms \ {NoForm} :
             (/\ album_exists(id)
              /\ strip(form.title) # <<>>
              /\ ~int_raises(form.artist_id)
              /\ ~artist_exists(int(form.artist_id))
              /\ dispatch(<<"albums.edit", id>>, "POST", form, None, None))
             => /\ UNCHANGED store
                /\ resp' = render_template("albums.edit", "albums/form.html", ForeignKeyFailed)
        /\ resp'.route = "album_songs.add" =>
           \A form \in AlbumSongForms \ {NoForm} :
             (/\ ~int_raises(form.album_id) /\ ~int_raises(form.song_id)
              /\ ~(album_exists(int(form.album_id)) /\ song_exists(int(form.song_id)))
              /\ dispatch(<<"album_songs.add">>, "POST", form, None, None))
             => /\ UNCHANGED store
                /\ resp' = redirect("album_songs.add", <<"album_songs.index">>, ForeignKeyFailed)
        /\ resp'.route = "song_genres.add" =>
           \A form \in SongGenreForms \ {NoForm} :
             (/\ ~int_raises(form.song_id) /\ ~int_raises(form.genre_id)
              /\ ~(song_exists(int(form.song_id)) /\ genre_exists(int(form.genre_id)))
              /\ dispatch(<<"song_genres.add">>, "POST", form, None, None))
             => /\ UNCHANGED store
                /\ resp' = redirect("song_genres.add", <<"song_genres.index">>, ForeignKeyFailed)
        /\ resp'.route = "album_genres.add" =>
           \A form \in AlbumGenreForms \ {NoForm} :
             (/\ ~int_raises(form.album_id) /\ ~int_raises(form.genre_id)
              /\ ~(album_exists(int(form.album_id)) /\ genre_exists(int(form.genre_id)))
              /\ dispatch(<<"album_genres.add">>, "POST", form, None, None))
             => /\ UNCHANGED store
                /\ resp' = redirect("album_genres.add", <<"album_genres.index">>, ForeignKeyFailed)
    ]_vars

\* An Edit of a stored album naming an artist that is not stored was turned
\* down, and the album still names a stored artist.
C22_Witness ==
    /\ resp = render_template("albums.edit", "albums/form.html", ForeignKeyFailed)
    /\ DOMAIN albums # {}
    /\ \A id \in DOMAIN albums : artist_exists(albums[id].artist_id)

\* The answer of an Add that raised nothing, and the number of rows a table
\* holds for a pair.
Added(endpoint, index) == redirect(endpoint, <<index>>, flash("Association added.", "success"))
CountOf(bag, pair) == IF pair \in DOMAIN bag THEN bag[pair] ELSE 0

\* C24: an Add of an authenticated caller whose form names, as numbers, a
\* stored pair of endpoints answers "Association added." and leaves one row
\* more for that pair than there was, whether or not the table already held
\* the pair; every other pair and every other table is as before.
C24_AddKeepsDuplicates ==
    [][is_authenticated /\ Idle =>
        /\ resp'.route = "album_songs.add" =>
           \A form \in AlbumSongForms \ {NoForm} :
             (/\ ~int_raises(form.album_id) /\ ~int_raises(form.song_id)
              /\ album_exists(int(form.album_id)) /\ song_exists(int(form.song_id))
              /\ dispatch(<<"album_songs.add">>, "POST", form, None, None))
             => /\ resp' = Added("album_songs.add", "album_songs.index")
                /\ album_songs' =
                     album_songs (+) SetToBag({<<int(form.album_id), int(form.song_id)>>})
                /\ UNCHANGED <<artists, albums, songs, genres, song_genres, album_genres>>
        /\ resp'.route = "song_genres.add" =>
           \A form \in SongGenreForms \ {NoForm} :
             (/\ ~int_raises(form.song_id) /\ ~int_raises(form.genre_id)
              /\ song_exists(int(form.song_id)) /\ genre_exists(int(form.genre_id))
              /\ dispatch(<<"song_genres.add">>, "POST", form, None, None))
             => /\ resp' = Added("song_genres.add", "song_genres.index")
                /\ song_genres' =
                     song_genres (+) SetToBag({<<int(form.song_id), int(form.genre_id)>>})
                /\ UNCHANGED <<artists, albums, songs, genres, album_songs, album_genres>>
        /\ resp'.route = "album_genres.add" =>
           \A form \in AlbumGenreForms \ {NoForm} :
             (/\ ~int_raises(form.album_id) /\ ~int_raises(form.genre_id)
              /\ album_exists(int(form.album_id)) /\ genre_exists(int(form.genre_id))
              /\ dispatch(<<"album_genres.add">>, "POST", form, None, None))
             => /\ resp' = Added("album_genres.add", "album_genres.index")
                /\ album_genres' =
                     album_genres (+) SetToBag({<<int(form.album_id), int(form.genre_id)>>})
                /\ UNCHANGED <<artists, albums, songs, genres, album_songs, song_genres>>
    ]_vars

\* The second Add of one pair was answered: the table holds the pair twice.
C24_Witness ==
    /\ resp = Added("song_genres.add", "song_genres.index")
    /\ \E pair \in DOMAIN song_genres : CountOf(song_genres, pair) = 2

\* C28: the user a session names changes only in two ways: a login request
\* of an unauthenticated session signs a user in, a logout request of an
\* authenticated one signs it out.  A login request of an authenticated
\* session, GET or POST and whatever its form and next argument, is
\* redirected to the landing page and changes neither the session nor a
\* table; so a session of the guest never turns into one of the superuser
\* in one step.
C28_PrincipalChanges ==
    [][/\ session' # session
            => \/ ~is_authenticated /\ resp'.route = "auth.login" /\ session' # None
               \/ is_authenticated /\ resp'.route = "auth.logout" /\ session' = None
       /\ (Idle /\ is_authenticated /\ resp'.route = "auth.login")
            => \A m \in Methods, form \in LoginForms, next \in NextArgs :
                 dispatch(<<"auth.login">>, m, form, None, next)
                 => /\ resp' = redirect("auth.login", <<"home.index">>, NoFlash)
                    /\ UNCHANGED <<session, store>>
       /\ IsGuestSession => ~IsSuperuserSession'
    ]_vars

\* A login request made by the signed-in guest was answered, and the session
\* is still the guest's.
C28_Witness ==
    /\ resp = redirect("auth.login", <<"home.index">>, NoFlash)
    /\ caller = Some(User(guest))
    /\ IsGuestSession

\* `after` holds no row of `pair` and, of every other pair, the rows `before` held.
OnlyPairGone(before, after, pair) ==
    /\ DOMAIN after = DOMAIN before \ {pair}
    /\ \A p \in DOMAIN after : after[p] = before[p]

\* C23: a Remove of the superuser whose form names a pair of ids leaves, in
\* its association table, no row of that pair and every row of every other
\* pair, those sharing one id with it included; the other two association
\* tables and the four entity tables are as before.
C23_RemoveOnlyThePair ==
    [][IsSuperuserSession /\ Idle =>
        \A a, b \in RouteIds :
            /\ (resp'.route = "album_songs.remove"
                  /\ dispatch(<<"album_songs.remove">>, "POST",
                              [album_id |-> str(a), song_id |-> str(b)], None, None))
               => /\ OnlyPairGone(album_songs, album_songs', <<a, b>>)
                  /\ UNCHANGED <<artists, albums, songs, genres, song_genres, album_genres>>
            /\ (resp'.route = "song_genres.remove"
                  /\ dispatch(<<"song_genres.remove">>, "POST",
                              [song_id |-> str(a), genre_id |-> str(b)], None, None))
               => /\ OnlyPairGone(song_genres, song_genres', <<a, b>>)
                  /\ UNCHANGED <<artists, albums, songs, genres, album_songs, album_genres>>
            /\ (resp'.route = "album_genres.remove"
                  /\ dispatch(<<"album_genres.remove">>, "POST",
                              [album_id |-> str(a), genre_id |-> str(b)], None, None))
               => /\ OnlyPairGone(album_genres, album_genres', <<a, b>>)
                  /\ UNCHANGED <<artists, albums, songs, genres, album_songs, song_genres>>
    ]_vars

\* The superuser's Remove of (album 1, genre 1) was answered: both rows of the
\* pair are gone, both rows of (album 1, genre 2) are there, and the other
\* tables are as they began.
C23_Witness ==
    /\ resp = Removed("album_genres.remove", "album_genres.index")
    /\ caller = Some(User(SUPERUSER))
    /\ album_genres = Copies({<<1, 2>>})
    /\ album_songs = Copies({<<1, 1>>})
    /\ song_genres = Copies({<<1, 1>>, <<1, 2>>})

\* C25: the existence check and the creation are two steps of a process.  A
\* process passes the check only while no file exists, and once it has
\* passed it never looks again: whatever another process has created since,
\* its next step opens the file and the one after runs the script.  So two
\* processes started while no file exists can both run the script.
C25_CheckThenCreateNotAtomic ==
    [][\A p \in Procs :
        /\ (pc(p) = "down" /\ pc(p)' = "checked") => ~db_file
        /\ (pc(p) = "checked" /\ pc(p)' # "checked") => pc(p)' = "connected" /\ db_file'
        /\ (pc(p) = "connected" /\ pc(p)' \notin {"connected", "down"})
              => /\ pc(p)' = "tables"
                 /\ startup'.scripts = startup.scripts + 1]_vars

\* Both processes passed the check and both have run the script.
C25_Witness ==
    /\ db_file
    /\ startup.scripts = 2
    /\ \A p \in {1, 2} : pc(p) \in {"tables", "up"}

\* The file exists, no run of the script has reached its end, and no process
\* is inside _init_db.
Incomplete == db_file /\ startup.finished = 0
NoneInitializing == \A p \in Procs : ~Initializing(p)

\* C26: once the file exists with the script unfinished and the process that
\* created it is gone, it stays so: every process started afterwards finds
\* the file and comes up without running the script, no step touches the
\* tables' existence or adds a seed row, and requests are served as they come.
C26_NeverRepaired ==
    [][(Incomplete /\ NoneInitializing)
        => /\ Incomplete' /\ NoneInitializing'
           /\ startup'.tables = startup.tables /\ startup'.scripts = startup.scripts
           /\ UNCHANGED store
           /\ \A p \in Procs : (pc(p) = "down" /\ pc(p)' # "down") => pc(p)' = "up"]_vars

\* A later start came up on a file without tables and a signed-in user's
\* request for the dashboard was answered by an uncaught error.
C26_Witness ==
    /\ Incomplete /\ NoneInitializing /\ ~startup.tables
    /\ Running
    /\ caller # None
    /\ resp = InternalServerError("home.index")

\* Which rows exist: the ids of each entity table and the rows of each
\* association table.
RowIdentities ==
    <<DOMAIN artists, DOMAIN albums, DOMAIN songs, DOMAIN genres,
      album_songs, song_genres, album_genres>>

\* C27: no step of an Edit changes which rows exist, in any table: not the
\* whole run of an Edit request, and not the SELECT, the UPDATE or the
\* teardown of an Edit that other requests run in between of, whatever those
\* have deleted since its SELECT.
C27_EditKeepsRowIdentities ==
    [][((Idle /\ resp'.route \in EditEndpoints) \/ pending' # pending)
        => RowIdentities' = RowIdentities]_vars

\* An Edit of an artist answered "Artist updated." although the row its
\* SELECT had found was deleted before its UPDATE; the row is not back.
C27_Witness ==
    /\ pending # None
    /\ pending[1].route = "artists.edit"
    /\ pending[1].resp = redirect("artists.edit", <<"artists.index">>,
                                  flash("Artist updated.", "success"))
    /\ ~artist_exists(pending[1].id)
====
